---- MODULE Spec2Model ----
(***************************************************************************)
(* Model of the FHIR client of the HCHB-FHIR-Portal repository             *)
(* (src/utils/fhir_client.py): TokenManager (bearer token + request        *)
(* counter behind one lock), FHIRClient.make_request (recursive retry)     *)
(* and FHIRClient.get_all_pages (pagination over "next" links).            *)
(*                                                                         *)
(* Worker threads are the elements of Threads.  Every thread has a control *)
(* location pc[t]; a recursive make_request call is a stack stk[t] of the  *)
(* frames that wait for the call they made, so retry_count of the running  *)
(* frame is Len(stk[t]).  The server is the environment: every POST and    *)
(* every GET draws its outcome from a small set.                           *)
(*                                                                         *)
(* The coordination-notes sync (src/scripts/coordination_notes_csv.py) is  *)
(* one sequential main with control location npc.  The five pipeline       *)
(* scripts (patients_csv, alert_media_batch, script_runner,                *)
(* weekly_appointments_csv, workers_csv) share one main with control       *)
(* location mpc; the tasks of their thread pools are task[i].              *)
(***************************************************************************)
EXTENDS Integers, Sequences, FiniteSets, TLC

\* ---------------------------------------------------------------- constants
\* utils/config.py: MAX_RETRIES = int(os.getenv('MAX_RETRIES', '3'))
MAX_RETRIES == 3
\* utils/config.py: TOKEN_ROTATION_COUNT = int(os.getenv('TOKEN_ROTATION_COUNT', '200'))
\* (environment-configurable; the model runs with a small threshold)
TOKEN_ROTATION_COUNT == 2

\* utils/config.py: BATCH_SIZE = int(os.getenv('BATCH_SIZE', '100'))
BATCH_SIZE == 2
\* utils/config.py: MAX_WORKERS = int(os.getenv('MAX_WORKERS', '5'))
MAX_WORKERS == 2
\* scripts/patients_csv.py: batch_size = 200 (scaled with BATCH_SIZE)
PATIENTS_BATCH == 2
\* scripts/weekly_appointments_csv.py: max(10, len(appointments) // 10) (scaled)
APPOINTMENTS_MIN_BATCH == 2
\* scripts/workers_csv.py: max(5, len(workers) // 10) (scaled)
WORKERS_MIN_BATCH == 2

\* ------------------------------------------------------------------- bounds
NThreads == 2      \* worker threads that share the TokenManager
NTok == 2          \* distinct bearer tokens the identity server hands out
MaxCount == 3      \* direct increment_request_count calls stop at this count
IncsCap == 2       \* hist[t].incs counts the increments of one call up to this
NPages == 3        \* bundles the server holds for one search
MaxPageReq == 4    \* page requests of one get_all_pages call the model follows

Threads == 1..NThreads
Tokens == 1..NTok
NoToken == 0       \* current_token = None
MaxItems == 4      \* items a fan-out stage of a pipeline is called with

\* Outcomes of one requests.get as make_request tells them apart.
\*   ok      200 with a JSON body          badjson 200, response.json() raises
\*   r429    429, integer Retry-After      r429bad 429, Retry-After not an int
\*   r414    414                           r5xx    status >= 500
\*   r4xx    any other 4xx                 neterr  requests.get raises
GetOutcomes == {"ok", "badjson", "r429", "r429bad", "r414", "r5xx", "r4xx", "neterr"}
FailedOutcomes == {"badjson", "r429", "r429bad", "r5xx", "r4xx", "neterr"}
HttpErrorOutcomes == {"r429", "r5xx", "r4xx"}

\* Outcomes of one requests.post of _fetch_new_token: a token, an HTTPError
\* (raise_for_status), or another exception (network, missing access_token).
PostOutcomes == {[kind |-> "ok", tok |-> k] : k \in Tokens}
                  \cup {[kind |-> "HTTPError", tok |-> NoToken],
                        [kind |-> "Other", tok |-> NoToken]}

VARIABLES
  current_token,   \* TokenManager.current_token (NoToken = None)
  request_count,   \* TokenManager.request_count
  lock,            \* TokenManager.lock: the thread that holds it, 0 = free
  pc,              \* pc[t]: control location of thread t
  stk,             \* stk[t]: make_request frames waiting for a recursive call
  resp,            \* resp[t]: outcome of the running frame's GET ("none" before)
  gtForce,         \* gtForce[t]: force_refresh argument of the get_token call
  ctx,             \* ctx[t]: call site the TokenManager call returns to
  attempt,         \* attempt[t]: loop variable of _fetch_new_token
  exc,             \* exc[t]: exception in flight ("none", "HTTPError", "Other")
  tmp,             \* tmp[t]: value read by self.request_count += 1
  result,          \* result[t]: how the last top-level call of t ended
  hist,            \* hist[t]: history of the running make_request call
  gt,              \* gt[t]: history of the running get_token call
  cleanSince,      \* clean calls completed since (token cached, count = 0); -1 = other
  incSince,        \* increment_request_count calls completed since the last refresh
  pages,           \* the server's bundles: pages[i] = [entries, next]
  bundle,          \* bundle[t]: get_all_pages' current bundle (index into pages)
  all_resources,   \* all_resources[t]: get_all_pages' accumulator
  page_count,      \* page_count[t]: get_all_pages' counter of non-empty pages
  reqs,            \* reqs[t]: page requests issued by the running get_all_pages
  remote,          \* the coordination-notes CSV in SharePoint: [exists, rows]
  remote0,         \* the remote CSV as it was when main started
  clock,           \* the wall clock, datetime.now(), in seconds
  npc,             \* control location of coordination_notes_csv.main
  current_date,    \* main's cursor (last_fetch_date at first)
  now,             \* main's 'now', taken once before the window loop
  page_number,     \* fetch_notes_by_date_range: page_number
  batch_notes,     \* fetch_notes_by_date_range: batch_notes
  batch_latest_date, \* fetch_notes_by_date_range: batch_latest_date
  run_timestamp,   \* fetch_notes_by_date_range: run_timestamp
  fp_attempt,      \* attempt number of the running fetch_page call
  coordination_notes, \* main: the notes collected by this run
  existing_notes,  \* main: the rows downloaded at step 4
  nret,            \* what main returned ("none" while it runs)
  dl,              \* the download_csv calls of this run: [phase, out]
  queries,         \* window queries (fetch_notes_by_date_range calls) so far
  batchDates,      \* the resource dates seen in the running window
  pageFailed,      \* a fetch_page call of this run exhausted its attempts
  uploaded,        \* upload_csv of this run succeeded
  last_req,        \* the last fetch_page call of the window: [url, params]
  pl,              \* the pipeline script whose main runs ("none" before)
  mpc,             \* control location of that main
  tstatus,         \* ProgressTracker.status ("none": no tracker created)
  terror,          \* ProgressTracker.error
  mret,            \* what main returned ("none" while it runs)
  cause,           \* the exception that reached main's outer handler
  stage,           \* index of the running fan-out stage in Stages(pl)
  nitems,          \* number of items the running stage was called with
  task,            \* task[i]: state of the pool task of item i
  batch,           \* index of the running batch of the stage
  cpos,            \* position in the batch of the next result to collect
  coll,            \* the stage's result list: the items whose data it kept
  first_empty,     \* the first stage of the run returned nothing
  have_data,       \* main has rows to write
  upl,             \* outcome of the upload ("none", "ok", "failed")
  bkp,             \* outcome of the local backup ("none", "ok", "failed")
  all_patients,    \* get_all_active_patients: what get_all_pages returned
  patients_with_birthdate, \* get_all_active_patients: its return value
  med_requests,    \* _check_patient_o2_status: the patient's MedicationRequests
  o2,              \* _check_patient_o2_status: its return value
  tracker,         \* tracker[n]: the ProgressTracker object of process n
  pfile,           \* pfile[f]: content of output/.progress/<f>
  current,         \* content of output/.progress/current.json
  wall,            \* datetime.now() as the tracker and its readers see it
  got,             \* what the last get_current_progress call returned
  wpc              \* wpc[n]: where the thread of process n is in _update_progress_file

clVars == <<current_token, request_count, lock, stk, resp, gtForce, ctx,
            attempt, exc, tmp, hist, gt, cleanSince, incSince>>
gapVars == <<pages, bundle, all_resources, page_count, reqs>>
noteVars == <<remote, remote0, clock, npc, current_date, now, page_number,
              batch_notes, batch_latest_date, run_timestamp, fp_attempt,
              coordination_notes, existing_notes, nret, dl, queries,
              batchDates, pageFailed, uploaded, last_req>>
pipeVars == <<pl, mpc, tstatus, terror, mret, cause, stage, nitems, task,
              batch, cpos, coll, first_empty, have_data, upl, bkp>>
patVars == <<all_patients, patients_with_birthdate>>
o2Vars == <<med_requests, o2>>
trkVars == <<tracker, pfile, current, wall, got, wpc>>
auxVars == <<patVars, o2Vars, trkVars>>
extVars == <<noteVars, pipeVars, auxVars>>
coreVars == <<clVars, pc, result, gapVars, pipeVars, auxVars>>
restVars == <<clVars, pc, result, gapVars, noteVars, auxVars>>
mainVars == <<clVars, pc, result, gapVars, noteVars, pipeVars>>
vars == <<current_token, request_count, lock, pc, stk, resp, gtForce, ctx,
          attempt, exc, tmp, result, hist, gt, cleanSince, incSince,
          pages, bundle, all_resources, page_count, reqs, extVars>>

\* the history of one call counts GETs up to one more than the claimed maximum
GetsCap == MAX_RETRIES + 2

Min(a, b) == IF a < b THEN a ELSE b
Max(a, b) == IF a > b THEN a ELSE b

RECURSIVE Pow2(_)
Pow2(n) == IF n = 0 THEN 1 ELSE 2 * Pow2(n - 1)

\* ------------------------------------------------- dates and CSV cells

\* coordination_notes_csv.py line 32
SYNC_BUFFER_MINUTES == 30

\* coordination_notes_csv.py line 89: timedelta(days=60)
DEFAULT_LOOKBACK_DAYS == 60

\* coordination_notes_csv.py line 36: stop_after_attempt(3)
FETCH_PAGE_ATTEMPTS == 3

\* coordination_notes_csv.py line 33 (1000 in the source, scaled down so that
\* the page limit of one window is reached)
MAX_PAGES_PER_REQUEST == 2

MaxRows == 3       \* rows the remote CSV holds when main starts
MaxTick == 1       \* seconds the wall clock advances during one run
MaxWindows == 2    \* window queries the server answers with notes, plus one
MaxEntries == 1    \* entries of one page
NoteSpan == 1      \* resource dates lie in the last NoteSpan seconds before the start

Minutes(n) == n * 60
Days(n) == n * 86400

\* the wall clock when main starts: after the default look-back of the epoch
Clock0 == Days(DEFAULT_LOOKBACK_DAYS) + Days(1)

\* A date string or CSV cell is [k, t, z]:
\*   k = "Z"     "YYYY-MM-DDTHH:MM:SSZ", t the second its digits name
\*   k = "off"   "YYYY-MM-DDTHH:MM:SS-05:00" followed by z characters "0"
\*   k = "empty" the empty string
\*   k = "bad"   a text that is not an ISO date
\*   k = "none"  None (a row shorter than the header)
EmptyStr == [k |-> "empty", t |-> 0, z |-> 0]
BadStr == [k |-> "bad", t |-> 0, z |-> 0]
NoneCell == [k |-> "none", t |-> 0, z |-> 0]
OffStr(t, z) == [k |-> "off", t |-> t, z |-> z]

\* strftime("%Y-%m-%dT%H:%M:%SZ") of the second t
ZStr(t) == [k |-> "Z", t |-> t, z |-> 0]

\* Python's str comparison a > b: the empty string is below every other, the
\* 19 characters of the timestamp compare as the seconds do, then "-" < "Z"
\* and a proper prefix is below the longer string
StrGT(a, b) ==
  IF a.k = "empty" THEN FALSE
  ELSE IF b.k = "empty" THEN TRUE
  ELSE \/ a.t > b.t
       \/ /\ a.t = b.t
          /\ \/ a.k = "Z" /\ b.k = "off"
             \/ a.k = "off" /\ b.k = "off" /\ a.z > b.z

StrGE(a, b) == a = b \/ StrGT(a, b)

\* no fetch_page call yet
NoRequest == [url |-> "none", params |-> "none"]

\* no coordination-notes CSV in the SharePoint folder
NoFile == [exists |-> FALSE, rows |-> <<>>]

HistInit == [gets |-> 0, lastOut |-> "none", forced |-> FALSE, incs |-> 0,
             exhausted |-> FALSE, fetches |-> 0, cleanAtCall |-> -1]
GtInit == [entryTok |-> NoToken, entryCnt |-> 0, posts |-> 0,
           naps |-> <<>>, lastErr |-> "none", ret |-> NoToken]

\* TokenManager.__init__ (lines 22-25) and idle worker threads
InitClient ==
  /\ current_token = NoToken
  /\ request_count = 0
  /\ lock = 0
  /\ pc = [t \in Threads |-> "idle"]
  /\ stk = [t \in Threads |-> <<>>]
  /\ resp = [t \in Threads |-> "none"]
  /\ gtForce = [t \in Threads |-> FALSE]
  /\ ctx = [t \in Threads |-> "none"]
  /\ attempt = [t \in Threads |-> 0]
  /\ exc = [t \in Threads |-> "none"]
  /\ tmp = [t \in Threads |-> 0]
  /\ result = [t \in Threads |-> "none"]
  /\ hist = [t \in Threads |-> HistInit]
  /\ gt = [t \in Threads |-> GtInit]
  /\ cleanSince = -1
  /\ incSince = 0

\* no get_all_pages call is running
InitGap ==
  /\ bundle = [t \in Threads |-> 0]
  /\ all_resources = [t \in Threads |-> <<>>]
  /\ page_count = [t \in Threads |-> 0]
  /\ reqs = [t \in Threads |-> 0]

\* the server holds a search result of empty bundles
InitServer == pages = [i \in 1..NPages |-> [entries |-> <<>>, next |-> 0]]

\* coordination_notes_csv.main has not been started; rf is the remote CSV
InitNotes(rf) ==
  /\ remote = rf
  /\ remote0 = rf
  /\ clock = Clock0
  /\ npc = "idle"
  /\ current_date = EmptyStr
  /\ now = EmptyStr
  /\ page_number = 1
  /\ batch_notes = <<>>
  /\ batch_latest_date = EmptyStr
  /\ run_timestamp = EmptyStr
  /\ fp_attempt = 1
  /\ coordination_notes = <<>>
  /\ existing_notes = <<>>
  /\ nret = "none"
  /\ dl = <<>>
  /\ queries = 0
  /\ batchDates = {}
  /\ pageFailed = FALSE
  /\ uploaded = FALSE
  /\ last_req = NoRequest

\* no pipeline main has been started
InitPipe ==
  /\ pl = "none"
  /\ mpc = "idle"
  /\ tstatus = "none"
  /\ terror = "none"
  /\ mret = "none"
  /\ cause = "none"
  /\ stage = 1
  /\ nitems = 0
  /\ task = [i \in 1..MaxItems |-> "none"]
  /\ batch = 1
  /\ cpos = 1
  /\ coll = <<>>
  /\ first_empty = FALSE
  /\ have_data = FALSE
  /\ upl = "none"
  /\ bkp = "none"

\* ------------------------------ patients, oxygen check, progress tracker

MaxPatients == 3    \* resources in the Patient bundle get_all_pages returns
MaxMeds == 2        \* MedicationRequests of one patient
MaxProcessed == 2   \* largest processed_items a call sets
MaxTotal == 1       \* largest total_items a main assigns
MaxClockSteps == 2  \* advances of the wall clock
TickSeconds == 300  \* seconds of one advance of the wall clock

SeqsUpTo(S, n) == UNION {[1..k -> S] : k \in 0..n}

\* a Patient resource: its active flag and its birthDate (key absent, empty
\* string, a date)
BirthDates == {"absent", "", "1950-01-01"}
PatientKinds == [active : BOOLEAN, birthDate : BirthDates]

\* get_all_active_patients has not returned yet
NoPatients == [called |-> FALSE, value |-> <<>>]

\* "birthDate" in patient and patient["birthDate"]
HasBirthdate(p) == p.birthDate # "absent" /\ p.birthDate # ""

\* get_all_active_patients: the search asks for active=true, the loop keeps
\* the resources with a birthDate
GetAllActivePatients ==
  /\ ~patients_with_birthdate.called
  /\ patients_with_birthdate' =
       [called |-> TRUE, value |-> SelectSeq(all_patients, HasBirthdate)]
  /\ UNCHANGED <<all_patients, o2Vars, trkVars, mainVars>>

\* the checks of _check_patient_o2_status in the order of its loop body; a
\* MedicationRequest is the set of checks it satisfies
Checks == <<"known ID", "name", "coding", "dosage", "category", "note">>
CheckNames == {Checks[i] : i \in 1..Len(Checks)}
MedKinds == SUBSET CheckNames

\* the methods class FHIRClient defines
FHIRClientMethods ==
  {"get_headers", "make_request", "get_resource", "search_resources",
   "get_all_pages"}

NoMatch == [has |-> FALSE, reason |-> ""]

\* the first check of the loop body the request satisfies
FirstCheck(req) ==
  Checks[CHOOSE i \in 1..Len(Checks) :
           Checks[i] \in req /\ \A j \in 1..(i - 1) : Checks[j] \notin req]

\* the for loop over med_requests: the first request that satisfies a check
\* returns
RECURSIVE ScanRequests(_, _)
ScanRequests(rs, i) ==
  IF i > Len(rs) THEN NoMatch
  ELSE IF rs[i] # {} THEN [has |-> TRUE, reason |-> FirstCheck(rs[i])]
  ELSE ScanRequests(rs, i + 1)

\* _check_patient_o2_status: fhir_client.get_resources(...) inside the try;
\* an attribute the client lacks raises, and the handler returns (False, "")
CheckPatientO2Status(rs) ==
  IF "get_resources" \in FHIRClientMethods THEN ScanRequests(rs, 1)
  ELSE NoMatch

NoO2 == [called |-> FALSE, has |-> FALSE, reason |-> ""]

CheckO2 ==
  /\ ~o2.called
  /\ LET r == CheckPatientO2Status(med_requests)
     IN o2' = [called |-> TRUE, has |-> r.has, reason |-> r.reason]
  /\ UNCHANGED <<med_requests, patVars, trkVars, mainVars>>

\* the process names of two of the pipelines and their progress files
\* (process_name.replace(' ', '_').lower() + ".json")
ProcessNames == {"Workers Directory", "Patient Demographics"}
FileName(n) ==
  CASE n = "Workers Directory" -> "workers_directory.json"
    [] n = "Patient Demographics" -> "patient_demographics.json"
FileNames == {FileName(n) : n \in ProcessNames}

STALE_SECONDS == 300
NoTime == "None"    \* end_time = None
EndTime == "set"    \* end_time = datetime.now(): some time

NoTracker ==
  [made |-> FALSE, total_items |-> 0, processed_items |-> 0,
   status |-> "none", end_time |-> NoTime, error |-> FALSE]

\* a file that does not exist; also the None get_current_progress returns
NoRecord ==
  [exists |-> FALSE, json |-> FALSE, process_name |-> "none", total_items |-> 0,
   processed_items |-> 0, percentage |-> 0, status |-> "none",
   end_time |-> NoTime, error |-> FALSE]
NoCurrent ==
  [exists |-> FALSE, json |-> FALSE, current_process |-> "none", updated_at |-> 0]
\* a file between open(path, 'w') and the end of the with block: it exists
\* and holds no JSON document
EmptyRecord == [NoRecord EXCEPT !.exists = TRUE]
EmptyCurrent == [NoCurrent EXCEPT !.exists = TRUE]
NotRead == [called |-> FALSE, value |-> NoRecord]

\* Python's round() of the quotient num / den (den > 0, num >= 0): to the
\* nearest integer, a tie to the even one
RoundHalfEven(num, den) ==
  LET q == num \div den
      r == num % den
  IN IF 2 * r < den THEN q
     ELSE IF 2 * r > den THEN q + 1
     ELSE IF q % 2 = 0 THEN q ELSE q + 1

\* round((processed_items / total_items) * 100) if total_items > 0 else 0
Percentage(t) ==
  IF t.total_items > 0 THEN RoundHalfEven(t.processed_items * 100, t.total_items)
  ELSE 0

\* progress_data of _update_progress_file
Record(n, t) ==
  [exists |-> TRUE, json |-> TRUE, process_name |-> n,
   total_items |-> t.total_items, processed_items |-> t.processed_items,
   percentage |-> Percentage(t), status |-> t.status,
   end_time |-> t.end_time, error |-> t.error]

\* a ProgressTracker method of process n that leaves the object as t and
\* calls _update_progress_file, which opens the process file for writing
TrackerOp(n, t) ==
  /\ wpc[n] = "idle"
  /\ tracker' = [tracker EXCEPT ![n] = t]
  /\ pfile' = [pfile EXCEPT ![FileName(n)] = EmptyRecord]
  /\ wpc' = [wpc EXCEPT ![n] = "file_open"]
  /\ got' = NotRead
  /\ UNCHANGED <<current, wall, patVars, o2Vars, mainVars>>

\* _update_progress_file: json.dump(progress_data, f) and the end of the
\* first with block
CloseFile(n) ==
  /\ wpc[n] = "file_open"
  /\ pfile' = [pfile EXCEPT ![FileName(n)] = Record(n, tracker[n])]
  /\ wpc' = [wpc EXCEPT ![n] = "file_closed"]
  /\ got' = NotRead
  /\ UNCHANGED <<tracker, current, wall, patVars, o2Vars, mainVars>>

\* _update_progress_file: open(current_filepath, 'w')
OpenCurrent(n) ==
  /\ wpc[n] = "file_closed"
  /\ current' = EmptyCurrent
  /\ wpc' = [wpc EXCEPT ![n] = "current_open"]
  /\ got' = NotRead
  /\ UNCHANGED <<tracker, pfile, wall, patVars, o2Vars, mainVars>>

\* _update_progress_file: json.dump of current_process and updated_at, and
\* the end of the second with block; the method returns
CloseCurrent(n) ==
  /\ wpc[n] = "current_open"
  /\ current' = [exists |-> TRUE, json |-> TRUE, current_process |-> n,
                 updated_at |-> wall]
  /\ wpc' = [wpc EXCEPT ![n] = "idle"]
  /\ got' = NotRead
  /\ UNCHANGED <<tracker, pfile, wall, patVars, o2Vars, mainVars>>

\* ProgressTracker(process_name): every main passes the name only
Construct(n) ==
  TrackerOp(n, [made |-> TRUE, total_items |-> 0, processed_items |-> 0,
                status |-> "running", end_time |-> NoTime, error |-> FALSE])

\* progress.total_items = len(...): the one assignment of a main, made
\* while its tracker still has the total_items it was created with; no file
\* is written
SetTotal(n, k) ==
  /\ wpc[n] = "idle"
  /\ tracker[n].made
  /\ tracker[n].status = "running"
  /\ tracker[n].total_items = 0
  /\ tracker' = [tracker EXCEPT ![n].total_items = k]
  /\ got' = NotRead
  /\ UNCHANGED <<pfile, current, wall, wpc, patVars, o2Vars, mainVars>>

Update(n, k) ==
  /\ tracker[n].made
  /\ TrackerOp(n, [tracker[n] EXCEPT !.processed_items = k])

Increment(n) ==
  /\ tracker[n].made
  /\ tracker[n].processed_items < MaxProcessed
  /\ TrackerOp(n, [tracker[n] EXCEPT !.processed_items = @ + 1])

Complete(n) ==
  /\ tracker[n].made
  /\ TrackerOp(n, [tracker[n] EXCEPT !.status = "completed", !.end_time = EndTime])

SetError(n) ==
  /\ tracker[n].made
  /\ TrackerOp(n, [tracker[n] EXCEPT !.status = "error", !.error = TRUE,
                                     !.end_time = EndTime])

TickWall ==
  /\ wall < MaxClockSteps * TickSeconds
  /\ wall' = wall + TickSeconds
  /\ got' = NotRead
  /\ UNCHANGED <<tracker, pfile, current, wpc, patVars, o2Vars, mainVars>>

\* (datetime.now() - updated_at).total_seconds() > 300
Stale(age) == age > STALE_SECONDS

\* get_current_progress: None without current.json, None when it is stale,
\* None without the process file, and None from the handler when json.load
\* raises on a file that holds no document
ReadProgress ==
  IF ~current.exists THEN NoRecord
  ELSE IF ~current.json THEN NoRecord
  ELSE IF Stale(wall - current.updated_at) THEN NoRecord
  ELSE IF ~pfile[FileName(current.current_process)].exists THEN NoRecord
  ELSE IF ~pfile[FileName(current.current_process)].json THEN NoRecord
  ELSE pfile[FileName(current.current_process)]

\* the UI poller's call, from its own thread
GetCurrentProgress ==
  /\ got' = [called |-> TRUE, value |-> ReadProgress]
  /\ UNCHANGED <<tracker, pfile, current, wall, wpc, patVars, o2Vars, mainVars>>

InitPat == all_patients = <<>> /\ patients_with_birthdate = NoPatients
InitO2 == med_requests = <<>> /\ o2 = NoO2
InitTrk ==
  /\ tracker = [n \in ProcessNames |-> NoTracker]
  /\ pfile = [f \in FileNames |-> NoRecord]
  /\ current = NoCurrent
  /\ wall = 0
  /\ got = NotRead
  /\ wpc = [n \in ProcessNames |-> "idle"]
InitAux == InitPat /\ InitO2 /\ InitTrk

InitExt == InitNotes(NoFile) /\ InitPipe /\ InitAux

Init ==
  /\ InitClient
  /\ InitGap
  /\ InitServer
  /\ InitExt

\* ------------------------------------------------------------ TokenManager

\* the lock is never waited for
LockFreeAlways == TRUE

\* with self.lock: the lock can be taken
LockFree == lock = 0

\* the threshold test written with > instead of >=
NeedsRefreshStrict(force) ==
  force \/ current_token = NoToken \/ request_count > TOKEN_ROTATION_COUNT

\* the test without force_refresh
NeedsRefreshUnforced(force) ==
  current_token = NoToken \/ request_count >= TOKEN_ROTATION_COUNT

\* get_token line 38: force_refresh or not self.current_token or
\*                    self.request_count >= TOKEN_ROTATION_COUNT
NeedsRefresh(force) ==
  force \/ current_token = NoToken \/ request_count >= TOKEN_ROTATION_COUNT

\* _fetch_new_token line 72: time.sleep(2 ** attempt)
FetchBackoff(a) == Pow2(a)

\* one attempt too many: range(MAX_RETRIES + 1)
FetchRetriesOneMore(a) == a < MAX_RETRIES

\* _fetch_new_token line 55: for attempt in range(MAX_RETRIES); a is the
\* attempt that just failed, TRUE when another attempt follows (line 64)
FetchRetries(a) == a < MAX_RETRIES - 1

\* retry_count of the running make_request frame of t
rc(t) == Len(stk[t])

\* make_request lines 152, 171, 195, 205: if retry_count < MAX_RETRIES
MayRetry(t) == rc(t) < MAX_RETRIES

\* get_token lines 37-38: take the lock and decide whether to refresh
GtEnter(t) ==
  /\ pc[t] = "gt_enter"
  /\ UNCHANGED <<gapVars, extVars>>
  /\ LockFree
  /\ lock' = t
  /\ gt' = [gt EXCEPT ![t] = [GtInit EXCEPT !.entryTok = current_token,
                                            !.entryCnt = request_count,
                                            !.ret = current_token]]
  /\ hist' = [hist EXCEPT ![t].forced = @ \/ gtForce[t],
                          ![t].fetches = @ + (IF NeedsRefresh(gtForce[t]) /\ hist[t].gets = 0
                                              THEN 1 ELSE 0)]
  /\ pc' = [pc EXCEPT ![t] = IF NeedsRefresh(gtForce[t]) THEN "fetch_post" ELSE "gt_exit"]
  /\ attempt' = [attempt EXCEPT ![t] = 0]
  /\ exc' = [exc EXCEPT ![t] = "none"]
  /\ UNCHANGED <<current_token, request_count, stk, resp, gtForce, ctx, tmp,
                 result, cleanSince, incSince>>

\* _fetch_new_token lines 55-75, one iteration of the attempt loop, and on
\* success get_token lines 39-40 (store the token, reset the counter)
FetchPost(t) ==
  /\ pc[t] = "fetch_post"
  /\ UNCHANGED <<gapVars, extVars>>
  /\ \E r \in PostOutcomes :
       IF r.kind = "ok"
       THEN /\ current_token' = r.tok
            /\ request_count' = 0
            /\ cleanSince' = 0
            /\ incSince' = 0
            /\ gt' = [gt EXCEPT ![t].posts = @ + 1, ![t].ret = r.tok]
            /\ pc' = [pc EXCEPT ![t] = "gt_exit"]
            /\ UNCHANGED <<attempt, exc>>
       ELSE IF FetchRetries(attempt[t])
       THEN /\ gt' = [gt EXCEPT ![t].posts = @ + 1, ![t].lastErr = r.kind,
                                ![t].naps = Append(@, FetchBackoff(attempt[t]))]
            /\ attempt' = [attempt EXCEPT ![t] = @ + 1]
            /\ UNCHANGED <<current_token, request_count, cleanSince, incSince, pc, exc>>
       ELSE /\ gt' = [gt EXCEPT ![t].posts = @ + 1, ![t].lastErr = r.kind]
            /\ exc' = [exc EXCEPT ![t] = r.kind]
            /\ pc' = [pc EXCEPT ![t] = "gt_exit"]
            /\ UNCHANGED <<current_token, request_count, cleanSince, incSince, attempt>>
  /\ UNCHANGED <<lock, stk, resp, gtForce, ctx, tmp, result, hist>>

\* a TokenManager call of t is over: its arguments and call site are dropped
Leave(t) ==
  /\ gtForce' = [gtForce EXCEPT ![t] = FALSE]
  /\ ctx' = [ctx EXCEPT ![t] = "none"]

\* make_request lines 154, 176, 200, 215: return self.make_request(...,
\* retry_count + 1); the caller's frame waits at site ("try" when the call
\* stands inside the try block, "handler" inside an except clause) and the
\* new frame starts with get_headers (line 131)
Recurse(t, site) ==
  /\ stk' = [stk EXCEPT ![t] = Append(@, [site |-> site, status |-> resp[t]])]
  /\ resp' = [resp EXCEPT ![t] = "none"]
  /\ pc' = [pc EXCEPT ![t] = "gt_enter"]
  /\ gtForce' = [gtForce EXCEPT ![t] = FALSE]
  /\ ctx' = [ctx EXCEPT ![t] = "headers"]

\* every exception lands in except Exception
HandlerGeneric(k) == "h_other"

\* an exception of kind k raised inside the try block of the running frame:
\* except requests.exceptions.HTTPError (line 190) or except Exception (204)
Handler(k) == IF k = "HTTPError" THEN "h_http" ELSE "h_other"

\* an exception of kind k is raised inside the try block of the running frame
RaiseInTry(t, k) ==
  /\ pc' = [pc EXCEPT ![t] = Handler(k)]
  /\ exc' = [exc EXCEPT ![t] = k]

LockAfterExitHeld(t, e) == IF e = "none" THEN 0 ELSE t

\* get_token line 37: 'with self.lock' releases the lock however the block
\* is left, by return or by the exception e
LockAfterExit(t, e) == 0

\* get_token line 43 / the end of the with block: release the lock and go back
\* to the call site, with the token or with the exception of _fetch_new_token
GtExit(t) ==
  /\ pc[t] = "gt_exit"
  /\ UNCHANGED <<gapVars, extVars>>
  /\ lock' = LockAfterExit(t, exc[t])
  /\ gt' = [gt EXCEPT ![t] = GtInit]
  /\ attempt' = [attempt EXCEPT ![t] = 0]
  /\ UNCHANGED <<current_token, request_count, tmp, hist, incSince, cleanSince>>
  /\ CASE ctx[t] = "direct" ->
            /\ pc' = [pc EXCEPT ![t] = "idle"]
            /\ result' = [result EXCEPT ![t] = IF exc[t] = "none" THEN "token" ELSE "raised"]
            /\ exc' = [exc EXCEPT ![t] = "none"]
            /\ Leave(t)
            /\ UNCHANGED <<stk, resp>>
       [] ctx[t] = "headers" /\ exc[t] = "none" ->
            \* line 131 done, requests.get comes next
            /\ pc' = [pc EXCEPT ![t] = "get"]
            /\ Leave(t)
            /\ UNCHANGED <<stk, resp, exc, result>>
       [] ctx[t] \in {"headers", "hHTTP"} /\ exc[t] # "none" ->
            \* lines 131 and 198 stand outside the try block: the frame raises
            /\ pc' = [pc EXCEPT ![t] = "raise"]
            /\ Leave(t)
            /\ UNCHANGED <<stk, resp, exc, result>>
       [] ctx[t] \in {"r429", "r5xx"} /\ exc[t] # "none" ->
            \* lines 148 and 173 stand inside the try block
            /\ pc' = [pc EXCEPT ![t] = Handler(exc[t])]
            /\ Leave(t)
            /\ UNCHANGED <<stk, resp, exc, result>>
       [] ctx[t] = "r429" /\ exc[t] = "none" ->
            \* lines 152-157
            IF MayRetry(t)
            THEN /\ Recurse(t, "try")
                 /\ UNCHANGED <<exc, result>>
            ELSE \* line 157: raise_for_status raises HTTPError
                 /\ RaiseInTry(t, "HTTPError")
                 /\ Leave(t)
                 /\ UNCHANGED <<stk, resp, result>>
       [] ctx[t] = "r5xx" /\ exc[t] = "none" ->
            \* lines 174-176
            /\ Recurse(t, "try")
            /\ UNCHANGED <<exc, result>>
       [] ctx[t] = "hHTTP" /\ exc[t] = "none" ->
            \* lines 199-200
            /\ Recurse(t, "handler")
            /\ UNCHANGED <<exc, result>>

\* increment_request_count lines 84-85: take the lock, read the counter
IncRead(t) ==
  /\ pc[t] = "inc_read"
  /\ UNCHANGED <<gapVars, extVars>>
  /\ LockFree
  /\ lock' = t
  /\ tmp' = [tmp EXCEPT ![t] = request_count]
  /\ pc' = [pc EXCEPT ![t] = "inc_write"]
  /\ UNCHANGED <<current_token, request_count, stk, resp, gtForce, ctx, attempt,
                 exc, result, hist, gt, cleanSince, incSince>>

\* how a top-level make_request call that ends now changes cleanSince: a
\* clean call is one GET answered 200 with a body
CleanAfter(t, res) ==
  IF res = "body" /\ hist[t].gets = 1 /\ cleanSince >= 0 THEN cleanSince + 1 ELSE -1

\* increment_request_count lines 85-91: store the counter, release the lock;
\* then make_request line 188 (return response.json()) or the caller
IncWrite(t) ==
  /\ pc[t] = "inc_write"
  /\ UNCHANGED <<gapVars, extVars>>
  /\ request_count' = tmp[t] + 1
  /\ lock' = 0
  /\ tmp' = [tmp EXCEPT ![t] = 0]
  /\ incSince' = incSince + 1
  /\ hist' = [hist EXCEPT ![t].incs = Min(@ + 1, IncsCap)]
  /\ Leave(t)
  /\ UNCHANGED <<current_token, attempt, gt>>
  /\ CASE ctx[t] = "direct" ->
            /\ pc' = [pc EXCEPT ![t] = "idle"]
            /\ result' = [result EXCEPT ![t] =
                 IF tmp[t] + 1 >= TOKEN_ROTATION_COUNT THEN "True" ELSE "False"]
            /\ UNCHANGED <<stk, resp, exc, cleanSince>>
       [] ctx[t] = "mr" /\ resp[t] = "ok" ->
            /\ pc' = [pc EXCEPT ![t] = "idle"]
            /\ result' = [result EXCEPT ![t] = "body"]
            /\ stk' = [stk EXCEPT ![t] = <<>>]
            /\ cleanSince' = CleanAfter(t, "body")
            /\ UNCHANGED <<resp, exc>>
       [] ctx[t] = "mr" /\ resp[t] # "ok" ->
            \* response.json() raises inside the try block
            /\ RaiseInTry(t, "Other")
            /\ UNCHANGED <<stk, resp, result, cleanSince>>

\* ------------------------------------------------------ FHIRClient.make_request

\* a caller invokes make_request(endpoint) with retry_count = 0; the call
\* starts with get_headers (line 131), i.e. token_manager.get_token()
CallMakeRequest(t) ==
  /\ pc[t] = "idle"
  /\ UNCHANGED <<gapVars, extVars>>
  /\ pc' = [pc EXCEPT ![t] = "gt_enter"]
  /\ gtForce' = [gtForce EXCEPT ![t] = FALSE]
  /\ ctx' = [ctx EXCEPT ![t] = "headers"]
  /\ stk' = [stk EXCEPT ![t] = <<>>]
  /\ resp' = [resp EXCEPT ![t] = "none"]
  /\ exc' = [exc EXCEPT ![t] = "none"]
  /\ result' = [result EXCEPT ![t] = "none"]
  /\ cleanSince' = IF current_token # NoToken /\ request_count = 0 THEN 0 ELSE cleanSince
  /\ hist' = [hist EXCEPT ![t] = [HistInit EXCEPT !.cleanAtCall =
                 IF current_token # NoToken /\ request_count = 0 THEN 0 ELSE cleanSince]]
  /\ UNCHANGED <<current_token, request_count, lock, attempt, tmp, gt, incSince>>

\* the 414 tests are missing
Never414(o) == FALSE

\* make_request lines 160 and 191: response.status_code == 414
Is414(o) == o = "r414"

\* make_request lines 161-162 and 192-193: return None; every waiting frame
\* returns what its recursive call returned, so the whole call ends
ReturnNone(t) ==
  /\ pc' = [pc EXCEPT ![t] = "idle"]
  /\ result' = [result EXCEPT ![t] = "None"]
  /\ stk' = [stk EXCEPT ![t] = <<>>]
  /\ exc' = [exc EXCEPT ![t] = "none"]
  /\ cleanSince' = CleanAfter(t, "None")

\* token_manager.get_token(force_refresh=True) is called from site c
ForceRefresh(t, c) ==
  /\ pc' = [pc EXCEPT ![t] = "gt_enter"]
  /\ gtForce' = [gtForce EXCEPT ![t] = TRUE]
  /\ ctx' = [ctx EXCEPT ![t] = c]

\* make_request lines 136-185: requests.get and the dispatch on its outcome,
\* in the order of the code
DoGet(t) ==
  /\ pc[t] = "get"
  /\ UNCHANGED <<gapVars, extVars>>
  /\ \E o \in GetOutcomes :
       /\ resp' = [resp EXCEPT ![t] = o]
       /\ hist' = [hist EXCEPT ![t].gets = Min(@ + 1, GetsCap), ![t].lastOut = o,
                               ![t].forced = FALSE,
                               ![t].exhausted = @ \/ (~MayRetry(t) /\ o \in FailedOutcomes)]
       /\ IF o = "neterr"
          THEN \* requests.get raises (connection, timeout)
               /\ RaiseInTry(t, "Other")
               /\ UNCHANGED <<stk, gtForce, ctx, result, cleanSince>>
          ELSE IF o = "r429bad"
          THEN \* line 143: int(...) raises ValueError
               /\ RaiseInTry(t, "Other")
               /\ UNCHANGED <<stk, gtForce, ctx, result, cleanSince>>
          ELSE IF o = "r429"
          THEN \* lines 142-148: sleep Retry-After, force a new token
               /\ ForceRefresh(t, "r429")
               /\ UNCHANGED <<stk, exc, result, cleanSince>>
          ELSE IF Is414(o)
          THEN \* lines 160-162
               /\ ReturnNone(t)
               /\ UNCHANGED <<gtForce, ctx>>
          ELSE IF o = "r5xx"
          THEN \* lines 165-179: sleep 2 ** retry_count, then retry or raise
               IF MayRetry(t)
               THEN /\ ForceRefresh(t, "r5xx")
                    /\ UNCHANGED <<stk, exc, result, cleanSince>>
               ELSE /\ RaiseInTry(t, "HTTPError")
                    /\ UNCHANGED <<stk, gtForce, ctx, result, cleanSince>>
          ELSE IF o \in {"ok", "badjson"}
          THEN \* lines 182-185: raise_for_status passes, count the request
               /\ pc' = [pc EXCEPT ![t] = "inc_read"]
               /\ ctx' = [ctx EXCEPT ![t] = "mr"]
               /\ UNCHANGED <<stk, gtForce, exc, result, cleanSince>>
          ELSE \* line 182: raise_for_status raises HTTPError
               /\ RaiseInTry(t, "HTTPError")
               /\ UNCHANGED <<stk, gtForce, ctx, result, cleanSince>>
  /\ UNCHANGED <<current_token, request_count, lock, attempt, tmp, gt, incSince>>

\* make_request lines 190-203: except requests.exceptions.HTTPError
HandleHTTPError(t) ==
  /\ pc[t] = "h_http"
  /\ UNCHANGED <<gapVars, extVars>>
  /\ IF Is414(resp[t])
     THEN /\ ReturnNone(t)
          /\ UNCHANGED <<gtForce, ctx>>
     ELSE IF MayRetry(t)
     THEN /\ ForceRefresh(t, "hHTTP")
          /\ exc' = [exc EXCEPT ![t] = "none"]
          /\ UNCHANGED <<stk, result, cleanSince>>
     ELSE /\ pc' = [pc EXCEPT ![t] = "raise"]
          /\ UNCHANGED <<stk, gtForce, ctx, exc, result, cleanSince>>
  /\ UNCHANGED <<current_token, request_count, lock, resp, attempt, tmp, hist, gt, incSince>>

\* make_request lines 204-218: except Exception
HandleException(t) ==
  /\ pc[t] = "h_other"
  /\ UNCHANGED <<gapVars, extVars>>
  /\ IF MayRetry(t)
     THEN /\ Recurse(t, "handler")
          /\ exc' = [exc EXCEPT ![t] = "none"]
     ELSE /\ pc' = [pc EXCEPT ![t] = "raise"]
          /\ UNCHANGED <<stk, resp, gtForce, ctx, exc>>
  /\ UNCHANGED <<current_token, request_count, lock, attempt, tmp, result, hist, gt,
                 cleanSince, incSince>>

\* an exception leaves the running frame: it reaches the caller of
\* make_request, or the frame below, which catches it when its call stands
\* inside the try block (lines 154, 176) and passes it on when the call
\* stands inside an except clause (lines 200, 215)
Propagate(t) ==
  /\ pc[t] = "raise"
  /\ UNCHANGED <<gapVars, extVars>>
  /\ IF stk[t] = <<>>
     THEN /\ pc' = [pc EXCEPT ![t] = "idle"]
          /\ result' = [result EXCEPT ![t] = "raised"]
          /\ cleanSince' = CleanAfter(t, "raised")
          /\ UNCHANGED <<stk, resp>>
     ELSE /\ stk' = [stk EXCEPT ![t] = SubSeq(@, 1, Len(@) - 1)]
          /\ resp' = [resp EXCEPT ![t] = stk[t][Len(stk[t])].status]
          /\ pc' = [pc EXCEPT ![t] = IF stk[t][Len(stk[t])].site = "try"
                                     THEN Handler(exc[t]) ELSE "raise"]
          /\ UNCHANGED <<result, cleanSince>>
  /\ UNCHANGED <<current_token, request_count, lock, gtForce, ctx, attempt, exc, tmp,
                 hist, gt, incSince>>

\* ------------------------------------------------ direct TokenManager calls

\* a worker thread calls token_manager.get_token(force_refresh)
CallGetToken(t) ==
  /\ pc[t] = "idle"
  /\ \E f \in BOOLEAN : gtForce' = [gtForce EXCEPT ![t] = f]
  /\ pc' = [pc EXCEPT ![t] = "gt_enter"]
  /\ ctx' = [ctx EXCEPT ![t] = "direct"]
  /\ result' = [result EXCEPT ![t] = "none"]
  /\ hist' = [hist EXCEPT ![t] = HistInit]
  /\ UNCHANGED <<current_token, request_count, lock, stk, resp, attempt, exc, tmp, gt,
                 cleanSince, incSince>>
  /\ UNCHANGED <<gapVars, extVars>>

\* a worker thread calls token_manager.increment_request_count()
CallIncrement(t) ==
  /\ pc[t] = "idle"
  /\ request_count < MaxCount
  /\ pc' = [pc EXCEPT ![t] = "inc_read"]
  /\ ctx' = [ctx EXCEPT ![t] = "direct"]
  /\ result' = [result EXCEPT ![t] = "none"]
  /\ hist' = [hist EXCEPT ![t] = HistInit]
  /\ UNCHANGED <<current_token, request_count, lock, stk, resp, gtForce, attempt, exc,
                 tmp, gt, cleanSince, incSince>>
  /\ UNCHANGED <<gapVars, extVars>>

\* ---------------------------------------------------- FHIRClient.get_all_pages

\* What one entry list of a bundle can look like: an entry either carries a
\* "resource" ("res") or does not ("nores"); <<>> is a missing or empty list.
EntryShapes == {<<>>, <<"res">>, <<"nores", "res">>}

\* a bundle: its entries and the page its relation=next link leads to
\* (0: no "link", no link with relation "next", or a next link without "url")
Bundles == [entries : EntryShapes, next : 0..NPages]

\* what search_resources / make_request hands to get_all_pages: the parsed
\* body, the None sentinel (414), or an exception
RequestResults == {"body", "None", "raised"}

\* lines 267-269 and 281-283: the resources of the entries of page i, in
\* order; the k-th entry's resource is <<i, k>>
RECURSIVE ResourcesOf(_, _)
ResourcesOf(i, k) ==
  IF k > Len(pages[i].entries) THEN <<>>
  ELSE (IF pages[i].entries[k] = "res" THEN <<<<i, k>>>> ELSE <<>>) \o ResourcesOf(i, k + 1)

\* lines 266 and 280: "entry" in bundle and bundle["entry"]
HasEntries(i) == pages[i].entries # <<>>

\* lines 275-277: the bundle has a link with relation "next" and a url
NextLink(i) == pages[i].next

\* a caller invokes get_all_pages(resource_type, params): lines 259-260
CallGetAllPages(t) ==
  /\ pc[t] = "idle"
  /\ pc' = [pc EXCEPT ![t] = "gap_first"]
  /\ result' = [result EXCEPT ![t] = "none"]
  /\ bundle' = [bundle EXCEPT ![t] = 0]
  /\ all_resources' = [all_resources EXCEPT ![t] = <<>>]
  /\ page_count' = [page_count EXCEPT ![t] = 0]
  /\ reqs' = [reqs EXCEPT ![t] = 0]
  /\ UNCHANGED pages
  /\ UNCHANGED <<clVars, extVars>>

KeepsGoingAlways(i, first) == TRUE

\* lines 266-273 and 280-288: after the first page the loop is always entered;
\* after a followed page only if it has entries (else: break)
KeepsGoing(i, first) == first \/ HasEntries(i)

\* lines 266-272 and 280-288: take bundle i in; "entry" in None raises
\* TypeError, an exception of make_request passes through
TakeBundle(t, r, i, first) ==
  IF r = "body"
  THEN /\ bundle' = [bundle EXCEPT ![t] = i]
       /\ all_resources' = [all_resources EXCEPT ![t] = @ \o ResourcesOf(i, 1)]
       /\ page_count' = [page_count EXCEPT ![t] = IF HasEntries(i) THEN @ + 1 ELSE @]
       /\ IF KeepsGoing(i, first)
          THEN /\ pc' = [pc EXCEPT ![t] = "gap_loop"]
               /\ UNCHANGED result
          ELSE \* line 288: break, then return all_resources
               /\ pc' = [pc EXCEPT ![t] = "idle"]
               /\ result' = [result EXCEPT ![t] = "returned"]
  ELSE /\ pc' = [pc EXCEPT ![t] = "idle"]
       /\ result' = [result EXCEPT ![t] = IF r = "None" THEN "TypeError" ELSE "raised"]
       /\ UNCHANGED <<bundle, all_resources, page_count>>

\* lines 263-272: request the first page and process it
GapFirst(t) ==
  /\ pc[t] = "gap_first"
  /\ reqs' = [reqs EXCEPT ![t] = @ + 1]
  /\ \E r \in RequestResults : TakeBundle(t, r, 1, TRUE)
  /\ UNCHANGED pages
  /\ UNCHANGED <<clVars, extVars>>

\* lines 275-293: one round of the while loop, or leaving it and returning
GapLoop(t) ==
  /\ pc[t] = "gap_loop"
  /\ IF NextLink(bundle[t]) = 0
     THEN /\ pc' = [pc EXCEPT ![t] = "idle"]
          /\ result' = [result EXCEPT ![t] = "returned"]
          /\ UNCHANGED <<bundle, all_resources, page_count, reqs>>
     ELSE /\ reqs[t] < MaxPageReq
          /\ reqs' = [reqs EXCEPT ![t] = @ + 1]
          /\ \E r \in RequestResults : TakeBundle(t, r, NextLink(bundle[t]), FALSE)
  /\ UNCHANGED pages
  /\ UNCHANGED <<clVars, extVars>>

\* -------------------------------------------- coordination notes: sync

batchVars == <<page_number, batch_notes, batch_latest_date, run_timestamp,
               fp_attempt, batchDates>>

\* the Api_Run_Date cells of the rows stored before the run
StoredCells == {NoneCell, EmptyStr, BadStr,
                ZStr(Clock0 - Minutes(90)), ZStr(Clock0 - Minutes(45))}

\* the remote CSV before the run: no file, or up to MaxRows rows
RemoteFiles ==
  {NoFile} \cup
  {[exists |-> TRUE,
    rows |-> [i \in 1..n |-> [id |-> 0 - i, Api_Run_Date |-> c[i]]]] :
      n \in 0..MaxRows, c \in [1..MaxRows -> StoredCells]}

\* the remote CSV before a full run: rows without a run date and rows with one
SyncFiles ==
  {NoFile} \cup
  {[exists |-> TRUE,
    rows |-> [i \in 1..n |->
               [id |-> 0 - i,
                Api_Run_Date |-> IF i % 2 = 1 THEN NoneCell
                                 ELSE ZStr(Clock0 - Minutes(45))]]] :
      n \in 0..MaxRows}

\* the resource dates the server sends: none, UTC, or with the offset -05:00
NoteTimes == (Clock0 - NoteSpan)..Clock0
NoteDates == {EmptyStr} \cup {ZStr(t) : t \in NoteTimes}
                        \cup {OffStr(t, 0) : t \in NoteTimes}

\* the resource dates of the entries of one page
PageShapes == UNION {[1..n -> NoteDates] : n \in 0..MaxEntries}

\* sharepoint_client.download_csv ends in one of three ways: the file is read
\* (or answered 404), an error inside its try is swallowed, or one of the
\* calls before the try (site, drive, headers) raises
DownloadOutcomes == {"ok", "error", "raised"}

\* the rows download_csv returns: [] for 404 and for a swallowed error
DownloadCsv(o) == IF o = "ok" /\ remote.exists THEN remote.rows ELSE <<>>

\* datetime.fromisoformat(cell.replace("Z", "+00:00")); -1 is ValueError
ParseIso(c) == IF c.k = "Z" THEN c.t ELSE -1

\* get_last_fetch_date, the loop over the rows; latest = -1 is None
RECURSIVE LatestDate(_, _, _)
LatestDate(rows, i, latest) ==
  IF i > Len(rows) THEN latest
  ELSE LET c == rows[i].Api_Run_Date IN
       IF c.k \in {"none", "empty"} THEN LatestDate(rows, i + 1, latest)
       ELSE IF ParseIso(c) = -1 THEN LatestDate(rows, i + 1, latest)
       ELSE IF latest = -1 \/ ParseIso(c) > latest
            THEN LatestDate(rows, i + 1, ParseIso(c))
            ELSE LatestDate(rows, i + 1, latest)

ApplyNoBuffer(t) == t

\* latest_date - timedelta(minutes=SYNC_BUFFER_MINUTES)
ApplyBuffer(t) == t - Minutes(SYNC_BUFFER_MINUTES)

\* the default cursor: 60 days before the wall clock
DefaultDate == ZStr(clock - Days(DEFAULT_LOOKBACK_DAYS))

\* main is started
CallMain ==
  /\ npc = "idle"
  /\ npc' = "resume"
  /\ remote0' = remote
  /\ UNCHANGED <<last_req, remote, clock, current_date, now, batchVars, coordination_notes,
                 existing_notes, nret, dl, queries, pageFailed, uploaded>>
  /\ UNCHANGED coreVars

\* main step 1: get_last_fetch_date()
GetLastFetchDate ==
  /\ npc = "resume"
  /\ \E o \in DownloadOutcomes :
       LET rows == DownloadCsv(o)
           latest == LatestDate(rows, 1, -1)
       IN /\ dl' = Append(dl, [phase |-> "resume", out |-> o])
          /\ current_date' = IF o # "raised" /\ rows # <<>> /\ latest # -1
                             THEN ZStr(ApplyBuffer(latest))
                             ELSE DefaultDate
  /\ npc' = "capture"
  /\ UNCHANGED <<last_req, remote, remote0, clock, now, batchVars, coordination_notes,
                 existing_notes, nret, queries, pageFailed, uploaded>>
  /\ UNCHANGED coreVars

\* main step 2, before the loop: 'now' is taken from the wall clock
CaptureNow ==
  /\ npc = "capture"
  /\ now' = ZStr(clock)
  /\ coordination_notes' = <<>>
  /\ npc' = "window"
  /\ UNCHANGED <<last_req, remote, remote0, clock, current_date, batchVars,
                 existing_notes, nret, dl, queries, pageFailed, uploaded>>
  /\ UNCHANGED coreVars

\* fetch_notes_by_date_range(current_date), up to the page loop
BeginWindow ==
  /\ npc = "window"
  /\ page_number' = 1
  /\ batch_notes' = <<>>
  /\ batch_latest_date' = current_date
  /\ run_timestamp' = ZStr(clock)
  /\ fp_attempt' = 1
  /\ batchDates' = {}
  /\ queries' = queries + 1
  /\ last_req' = NoRequest
  /\ npc' = "page"
  /\ UNCHANGED <<remote, remote0, clock, current_date, now, coordination_notes,
                 existing_notes, nret, dl, pageFailed, uploaded>>
  /\ UNCHANGED coreVars

\* the note records of the entries es, numbered after the base notes so far
NoteRecords(es, base, run) ==
  [i \in 1..Len(es) |-> [id |-> base + i, Api_Run_Date |-> run]]

\* "if resource_date and resource_date > batch_latest_date", entry by entry
RECURSIVE TrackLatest(_, _, _)
TrackLatest(es, i, latest) ==
  IF i > Len(es) THEN latest
  ELSE IF es[i].k # "empty" /\ StrGT(es[i], latest)
       THEN TrackLatest(es, i + 1, es[i])
       ELSE TrackLatest(es, i + 1, latest)

\* the server answers the window query after MaxWindows with an empty page
ServerPages ==
  IF queries > MaxWindows THEN {<<>>} ELSE PageShapes

ServerNext ==
  IF queries > MaxWindows THEN {FALSE} ELSE BOOLEAN

\* line 130: fetch_page(url, params if page_number == 1 else None); url is
\* "DocumentReference" until a next link replaced it (lines 176-183)
PageRequest(p) ==
  IF p = 1 THEN [url |-> "DocumentReference", params |-> "search"]
  ELSE [url |-> "next", params |-> "none"]

WithinPageCapPlusOne(p) == p <= MAX_PAGES_PER_REQUEST + 1

\* line 127: page_number <= MAX_PAGES_PER_REQUEST
WithinPageCap(p) == p <= MAX_PAGES_PER_REQUEST

\* one round of the page loop: one attempt of fetch_page and what follows it
FetchPage ==
  /\ npc = "page"
  /\ last_req' = PageRequest(page_number)
  /\ \E r \in RequestResults :
       \/ \* make_request raised and tenacity tries again
          /\ r = "raised"
          /\ fp_attempt < FETCH_PAGE_ATTEMPTS
          /\ fp_attempt' = fp_attempt + 1
          /\ UNCHANGED <<npc, page_number, batch_notes, batch_latest_date,
                         batchDates, pageFailed>>
       \/ \* the last attempt raised: except Exception, break
          /\ r = "raised"
          /\ fp_attempt = FETCH_PAGE_ATTEMPTS
          /\ pageFailed' = TRUE
          /\ npc' = "advance"
          /\ UNCHANGED <<fp_attempt, page_number, batch_notes,
                         batch_latest_date, batchDates>>
       \/ \* the 414 sentinel: None.get raises AttributeError, break
          /\ r = "None"
          /\ npc' = "advance"
          /\ UNCHANGED <<fp_attempt, page_number, batch_notes,
                         batch_latest_date, batchDates, pageFailed>>
       \/ /\ r = "body"
          /\ \E es \in ServerPages, nx \in ServerNext :
               /\ batch_notes' = batch_notes \o
                    NoteRecords(es, Len(coordination_notes) + Len(batch_notes),
                                run_timestamp)
               /\ batch_latest_date' = TrackLatest(es, 1, batch_latest_date)
               /\ batchDates' = batchDates \cup {es[i] : i \in 1..Len(es)}
               /\ IF nx
                  THEN /\ page_number' = page_number + 1
                       /\ npc' = IF WithinPageCap(page_number + 1)
                                 THEN "page" ELSE "advance"
                  ELSE /\ npc' = "advance"
                       /\ UNCHANGED page_number
          /\ fp_attempt' = 1
          /\ UNCHANGED pageFailed
  /\ UNCHANGED <<remote, remote0, clock, current_date, now, run_timestamp,
                 coordination_notes, existing_notes, nret, dl, queries, uploaded>>
  /\ UNCHANGED coreVars

\* main lines 225-241: the date parses when strptime accepts what is left of
\* it, which it does not for a string that ends in "-05:00"
Parses(s) == s.k = "Z"

NextCursorSame(s) == IF Parses(s) THEN ZStr(s.t) ELSE OffStr(s.t, s.z)

\* main lines 242 and 247: one second later, or the string with a "0" added
NextCursor(s) == IF Parses(s) THEN ZStr(s.t + 1) ELSE OffStr(s.t, s.z + 1)

ReachedClock(c) == StrGE(c, ZStr(clock))

\* main line 251: current_date >= now
ReachedNow(c) == StrGE(c, now)

\* main lines 212-253: the batch is back; stop, or advance the cursor
AdvanceWindow ==
  /\ npc = "advance"
  /\ IF batch_notes = <<>>
     THEN /\ npc' = "check"
          /\ UNCHANGED <<coordination_notes, current_date>>
     ELSE /\ coordination_notes' = coordination_notes \o batch_notes
          /\ current_date' = NextCursor(batch_latest_date)
          /\ npc' = IF ReachedNow(NextCursor(batch_latest_date))
                    THEN "check" ELSE "window"
  /\ page_number' = 1
  /\ batch_notes' = <<>>
  /\ batch_latest_date' = EmptyStr
  /\ run_timestamp' = EmptyStr
  /\ batchDates' = {}
  /\ UNCHANGED <<last_req, remote, remote0, clock, now, fp_attempt, existing_notes,
                 nret, dl, queries, pageFailed, uploaded>>
  /\ UNCHANGED coreVars

\* main step 3: nothing new, return True
CheckNew ==
  /\ npc = "check"
  /\ IF coordination_notes = <<>>
     THEN /\ nret' = "True"
          /\ npc' = "done"
     ELSE /\ npc' = "merge"
          /\ UNCHANGED nret
  /\ UNCHANGED <<last_req, remote, remote0, clock, current_date, now, batchVars,
                 coordination_notes, existing_notes, dl, queries, pageFailed,
                 uploaded>>
  /\ UNCHANGED coreVars

\* main step 4: download_csv again; what it raises ends main with False
DownloadExisting ==
  /\ npc = "merge"
  /\ \E o \in DownloadOutcomes :
       /\ dl' = Append(dl, [phase |-> "merge", out |-> o])
       /\ IF o = "raised"
          THEN /\ nret' = "False"
               /\ npc' = "done"
               /\ UNCHANGED existing_notes
          ELSE /\ existing_notes' = DownloadCsv(o)
               /\ npc' = "upload"
               /\ UNCHANGED nret
  /\ UNCHANGED <<last_req, remote, remote0, clock, current_date, now, batchVars,
                 coordination_notes, queries, pageFailed, uploaded>>
  /\ UNCHANGED coreVars

\* csv.DictWriter writes None as the empty string
CsvWrite(rows) ==
  [i \in 1..Len(rows) |->
     [rows[i] EXCEPT !.Api_Run_Date = IF @.k = "none" THEN EmptyStr ELSE @]]

AllNotesNewOnly(existing, new) == new

\* main line 274: all_notes = existing_notes + coordination_notes
AllNotes(existing, new) == existing \o new

UploadOutcomes == {"ok", "failed"}

\* main step 6: upload_csv(all_notes) rewrites the file, or raises
UploadMerged ==
  /\ npc = "upload"
  /\ \E o \in UploadOutcomes :
       IF o = "ok"
       THEN /\ remote' = [exists |-> TRUE,
                          rows |-> CsvWrite(AllNotes(existing_notes,
                                                     coordination_notes))]
            /\ uploaded' = TRUE
            /\ nret' = "True"
       ELSE /\ nret' = "False"
            /\ UNCHANGED <<remote, uploaded>>
  /\ npc' = "done"
  /\ UNCHANGED <<last_req, remote0, clock, current_date, now, batchVars,
                 coordination_notes, existing_notes, dl, queries, pageFailed>>
  /\ UNCHANGED coreVars

\* the wall clock advances while main runs; it is read by get_last_fetch_date,
\* before the window loop and at the start of every window
Tick ==
  /\ npc \in {"resume", "capture", "window"}
  /\ clock < Clock0 + MaxTick
  /\ clock' = clock + 1
  /\ UNCHANGED <<last_req, remote, remote0, npc, current_date, now, batchVars,
                 coordination_notes, existing_notes, nret, dl, queries,
                 pageFailed, uploaded>>
  /\ UNCHANGED coreVars

\* -------------------------------------------- pipelines: fan-out and main
\* The five scripts that fetch, fan out over a thread pool, and upload:
\*   patients       scripts/patients_csv.py
\*   alert_media    scripts/alert_media_batch.py
\*   script_runner  utils/script_runner.py
\*   weekly         scripts/weekly_appointments_csv.py
\*   workers        scripts/workers_csv.py
Pipelines == {"patients", "alert_media", "script_runner", "weekly", "workers"}

\* the fan-out stages of each main, in call order
Stages(p) ==
  CASE p = "patients" -> <<"patient processing">>
    [] p = "alert_media" -> <<"location lookup", "O2 check">>
    [] p = "script_runner" -> <<"patient data", "provider lookup">>
    [] p = "weekly" -> <<"appointments per day", "appointment extraction">>
    [] p = "workers" -> <<"worker extraction">>

\* how a stage takes the results of its pool: future.result() inside
\* try/except, or list(executor.map(...)) with nothing around it
Collects(s) ==
  IF s \in {"appointment extraction", "worker extraction"} THEN "map" ELSE "future"

\* the task function wraps its whole body in try/except and returns a default
TaskCatches(s) == s \in {"location lookup", "O2 check"}

\* items of one pool.  script_runner opens ONE pool and submits every ID batch
\* to it as one task, so its items are the ID batches and its pool takes all
\* of them; weekly cuts the dates into chunks of min(MAX_WORKERS, len); the
\* extraction stages use max(minimum, len // 10).
BatchSizeOf(s, n) ==
  CASE s = "patient processing" -> PATIENTS_BATCH
    [] s \in {"location lookup", "O2 check"} -> BATCH_SIZE
    [] s \in {"patient data", "provider lookup"} -> n
    [] s = "appointments per day" -> Min(MAX_WORKERS, n)
    [] s = "appointment extraction" -> Max(APPOINTMENTS_MIN_BATCH, n \div 10)
    [] s = "worker extraction" -> Max(WORKERS_MIN_BATCH, n \div 10)

\* ThreadPoolExecutor(max_workers=...)
PoolWorkers(s, n) == IF s = "appointments per day" THEN Min(MAX_WORKERS, n) ELSE MAX_WORKERS

Ids(n) == [i \in 1..n |-> i]

\* Python seq[lo:hi] for 0 <= lo
Slice(seq, lo, hi) == SubSeq(seq, lo + 1, Min(hi, Len(seq)))

\* range(0, n, B)
Starts(n, B) == [k \in 1..((n + B - 1) \div B) |-> (k - 1) * B]

SliceEndWide(i, B) == i + B + 1

\* the end index of ids[i:i+B]
SliceEnd(i, B) == i + B

\* [seq[i:i+B] for i in range(0, len(seq), B)]
Batches(seq, B) ==
  [k \in 1..Len(Starts(Len(seq), B)) |->
     Slice(seq, Starts(Len(seq), B)[k], SliceEnd(Starts(Len(seq), B)[k], B))]

CurStage == Stages(pl)[stage]
CurBatches == Batches(Ids(nitems), BatchSizeOf(CurStage, nitems))
CurBatch == CurBatches[batch]
SeqRange(s) == {s[k] : k \in 1..Len(s)}

\* Future.done(): the task returned, raised, or was cancelled before it ran
Finished(s) == s \in {"done", "empty", "raised", "cancelled"}

\* leaving the 'with ThreadPoolExecutor' block: shutdown(wait=True)
PoolIdle == \A i \in SeqRange(CurBatch) : Finished(task[i])

NoTasks == [i \in 1..MaxItems |-> "none"]

\* progress.complete(...) on a branch that has nothing to upload; return True
CompleteEmpty ==
  /\ tstatus' = "completed"
  /\ mret' = "True"
  /\ mpc' = "done"

\* main() of one of the scripts is called
StartPipeline(p) ==
  /\ mpc = "idle"
  /\ pl' = p
  /\ mpc' = "create"
  /\ UNCHANGED <<tstatus, terror, mret, cause, stage, nitems, task, batch, cpos,
                 coll, first_empty, have_data, upl, bkp>>
  /\ UNCHANGED restVars

\* progress = ProgressTracker(...): os.makedirs may raise before the name
\* 'progress' is bound
CreateTracker ==
  /\ mpc = "create"
  /\ \E ok \in BOOLEAN :
       IF ok
         THEN tstatus' = "running" /\ mpc' = "fetch" /\ UNCHANGED cause
         ELSE cause' = "makedirs" /\ mpc' = "fatal" /\ UNCHANGED tstatus
  /\ UNCHANGED <<pl, terror, mret, stage, nitems, task, batch, cpos, coll,
                 first_empty, have_data, upl, bkp>>
  /\ UNCHANGED restVars

\* step 1 of every main: the input list.  weekly computes the dates of the
\* current week (never empty, no request); the others page through the FHIR
\* server and may raise.
FetchInput ==
  /\ mpc = "fetch"
  /\ \/ /\ pl # "weekly"
        /\ cause' = "fetch"
        /\ mpc' = "fatal"
        /\ UNCHANGED <<tstatus, mret, stage, nitems>>
     \/ /\ pl # "weekly"
        /\ CompleteEmpty
        /\ UNCHANGED <<cause, stage, nitems>>
     \/ \E n \in 1..MaxItems :
          /\ nitems' = n
          /\ stage' = 1
          /\ mpc' = "submit"
          /\ UNCHANGED <<tstatus, mret, cause>>
  /\ UNCHANGED <<pl, terror, task, batch, cpos, coll, first_empty, have_data,
                 upl, bkp>>
  /\ UNCHANGED restVars

\* the next batch enters a new pool: executor.submit for every item
SubmitBatch ==
  /\ mpc = "submit"
  /\ batch <= Len(CurBatches)
  /\ task' = [i \in 1..MaxItems |->
                IF i \in SeqRange(CurBatch) THEN "pending" ELSE task[i]]
  /\ cpos' = 1
  /\ mpc' = "collect"
  /\ UNCHANGED <<pl, tstatus, terror, mret, cause, stage, nitems, batch, coll,
                 first_empty, have_data, upl, bkp>>
  /\ UNCHANGED restVars

\* a pool worker takes a queued task
StartTask(i) ==
  /\ mpc \in {"collect", "unwind"}
  /\ task[i] = "pending"
  /\ Cardinality({j \in 1..MaxItems : task[j] = "running"})
       < PoolWorkers(CurStage, nitems)
  /\ task' = [task EXCEPT ![i] = "running"]
  /\ UNCHANGED <<pl, mpc, tstatus, terror, mret, cause, stage, nitems, batch,
                 cpos, coll, first_empty, have_data, upl, bkp>>
  /\ UNCHANGED restVars

\* the task function ends: with data, with nothing, or by an exception
\* (which a catching task function turns into its default)
FinishTask(i) ==
  /\ task[i] = "running"
  /\ \E o \in {"ok", "empty", "fail"} :
       task' = [task EXCEPT ![i] =
                  CASE o = "ok" -> "done"
                    [] o = "empty" -> "empty"
                    [] o = "fail" -> IF TaskCatches(CurStage) THEN "empty" ELSE "raised"]
  /\ UNCHANGED <<pl, mpc, tstatus, terror, mret, cause, stage, nitems, batch,
                 cpos, coll, first_empty, have_data, upl, bkp>>
  /\ UNCHANGED restVars

\* the main thread takes the next result, in submission order.
\*   future: try: data = future.result(); if data: append
\*           except Exception: log
\*   map:    the iterator of executor.map re-raises the task's exception,
\*           cancels the tasks still queued, and the exception leaves the
\*           'with' block
CollectResult ==
  /\ mpc = "collect"
  /\ cpos <= Len(CurBatch)
  /\ Finished(task[CurBatch[cpos]])
  /\ IF task[CurBatch[cpos]] = "raised" /\ Collects(CurStage) = "map"
       THEN /\ task' = [i \in 1..MaxItems |->
                          IF task[i] = "pending" THEN "cancelled" ELSE task[i]]
            /\ mpc' = "unwind"
            /\ UNCHANGED <<cpos, coll>>
       ELSE /\ cpos' = cpos + 1
            /\ coll' = IF task[CurBatch[cpos]] = "done" /\ Collects(CurStage) = "future"
                         THEN Append(coll, CurBatch[cpos])
                         ELSE coll
            /\ UNCHANGED <<task, mpc>>
  /\ UNCHANGED <<pl, tstatus, terror, mret, cause, stage, nitems, batch,
                 first_empty, have_data, upl, bkp>>
  /\ UNCHANGED restVars

\* the results of a map batch that are kept: [r for r in results if r]
MapKept(b) == SelectSeq(b, LAMBDA i : task[i] = "done")

\* every result of the batch is taken; the 'with' block ends and the loop
\* moves to the next batch (map: results.extend(batch_results))
ExitPool ==
  /\ mpc = "collect"
  /\ cpos > Len(CurBatch)
  /\ PoolIdle
  /\ coll' = IF Collects(CurStage) = "map" THEN coll \o MapKept(CurBatch) ELSE coll
  /\ batch' = batch + 1
  /\ mpc' = "submit"
  /\ UNCHANGED <<pl, tstatus, terror, mret, cause, stage, nitems, task, cpos,
                 first_empty, have_data, upl, bkp>>
  /\ UNCHANGED restVars

\* a task's exception leaves the 'with' block once the running tasks ended,
\* and reaches main's outer handler
Unwind ==
  /\ mpc = "unwind"
  /\ PoolIdle
  /\ cause' = "task"
  /\ mpc' = "fatal"
  /\ UNCHANGED <<pl, tstatus, terror, mret, stage, nitems, task, batch, cpos,
                 coll, first_empty, have_data, upl, bkp>>
  /\ UNCHANGED restVars

\* the stage returns.  weekly: 'if appointments:' decides between the
\* extraction stage (over the appointments found) and "No appointments";
\* alert_media and script_runner run their second stage over the same IDs.
EndStage ==
  /\ mpc = "submit"
  /\ batch > Len(CurBatches)
  /\ IF stage < Len(Stages(pl))
       THEN IF pl = "weekly" /\ coll = <<>>
              THEN /\ CompleteEmpty
                   /\ UNCHANGED <<stage, nitems, first_empty>>
              ELSE /\ stage' = stage + 1
                   /\ first_empty' = (coll = <<>>)
                   /\ IF pl = "weekly"
                        THEN nitems' \in 1..MaxItems
                        ELSE nitems' = nitems
                   /\ mpc' = "submit"
                   /\ UNCHANGED <<tstatus, mret>>
       ELSE /\ mpc' = "prepare"
            /\ UNCHANGED <<stage, nitems, first_empty, tstatus, mret>>
  /\ batch' = 1
  /\ task' = NoTasks
  /\ cpos' = 1
  /\ coll' = IF stage < Len(Stages(pl)) THEN <<>> ELSE coll
  /\ UNCHANGED <<pl, terror, cause, have_data, upl, bkp>>
  /\ UNCHANGED restVars

\* the rows main would write.  alert_media lists every patient as complete
\* or missing; script_runner builds alerts only for patients it has data of.
RowChoices ==
  CASE pl = "alert_media" -> {TRUE}
    [] pl = "script_runner" -> IF first_empty THEN {FALSE} ELSE BOOLEAN
    [] OTHER -> {coll # <<>>}

\* 'if processed_patients:' and its likes
Prepare ==
  /\ mpc = "prepare"
  /\ \E h \in RowChoices :
       /\ have_data' = h
       /\ IF h
            THEN /\ mpc' = IF pl \in {"weekly", "workers"} THEN "upload" ELSE "save"
                 /\ UNCHANGED <<tstatus, mret>>
            ELSE CompleteEmpty
  /\ UNCHANGED <<pl, terror, cause, stage, nitems, task, batch, cpos, coll,
                 first_empty, upl, bkp>>
  /\ UNCHANGED restVars

\* what main does between the rows and the upload.
\*   patients, script_runner: save_to_local_csv / save_alerts_locally, outside
\*     the upload's try
\*   alert_media: progress.update(progress_tracker.processed_items, ...) names
\*     an undefined variable: NameError
SaveLocal ==
  /\ mpc = "save"
  /\ IF pl = "alert_media"
       THEN /\ cause' = "NameError"
            /\ mpc' = "fatal"
            /\ UNCHANGED bkp
       ELSE \E ok \in BOOLEAN :
              IF ok
                THEN bkp' = "ok" /\ mpc' = "upload" /\ UNCHANGED cause
                ELSE bkp' = "failed" /\ cause' = "backup" /\ mpc' = "fatal"
  /\ UNCHANGED <<pl, tstatus, terror, mret, stage, nitems, task, batch, cpos,
                 coll, first_empty, have_data, upl>>
  /\ UNCHANGED restVars

UploadFailedStatusLenient(b) == IF b = "ok" THEN "running" ELSE "error"

\* ProgressTracker.status after the upload's except block: set_error(...)
UploadFailedStatus(b) == "error"

\* what main returns after a failed upload: script_runner and alert_media fall
\* through to 'return True', the others 'return False' in the except block
UploadFailedReturn(p) ==
  IF p \in {"script_runner", "alert_media"} THEN "True" ELSE "False"

\* the backup after a failed upload.  Only alert_media's except block writes
\* one, through sharepoint_client.save_csv_local, which SharePointClient does
\* not define: the inner try ends in its except branch.
BackupAfterFailedUpload(p, b) == IF p = "alert_media" THEN "failed" ELSE b

\* try: sharepoint_client.upload_csv(...); progress.complete(...)
\* except Exception: progress.set_error("SharePoint upload failed: ...")
\* (SaveLocal never hands alert_media on to this step)
Upload ==
  /\ mpc = "upload"
  /\ \E ok \in BOOLEAN :
       IF ok
         THEN /\ upl' = "ok"
              /\ tstatus' = "completed"
              /\ mret' = "True"
              /\ UNCHANGED <<terror, bkp>>
         ELSE /\ upl' = "failed"
              /\ bkp' = BackupAfterFailedUpload(pl, bkp)
              /\ tstatus' = UploadFailedStatus(bkp')
              /\ terror' = "upload"
              /\ mret' = UploadFailedReturn(pl)
  /\ mpc' = "done"
  /\ UNCHANGED <<pl, cause, stage, nitems, task, batch, cpos, coll, first_empty,
                 have_data>>
  /\ UNCHANGED restVars

TrackerBoundNever == FALSE

\* 'progress' in locals()
TrackerBound == tstatus # "none"

\* except Exception as e: if 'progress' in locals(): progress.set_error(str(e))
\* return False
FatalHandler ==
  /\ mpc = "fatal"
  /\ IF TrackerBound
       THEN tstatus' = "error" /\ terror' = cause
       ELSE UNCHANGED <<tstatus, terror>>
  /\ mret' = "False"
  /\ mpc' = "done"
  /\ UNCHANGED <<pl, cause, stage, nitems, task, batch, cpos, coll, first_empty,
                 have_data, upl, bkp>>
  /\ UNCHANGED restVars

\* ------------------------------------------------------------ specifications

\* one worker issuing make_request calls one after the other
Next ==
  \/ CallMakeRequest(1)
  \/ GtEnter(1)
  \/ FetchPost(1)
  \/ GtExit(1)
  \/ DoGet(1)
  \/ IncRead(1)
  \/ IncWrite(1)
  \/ HandleHTTPError(1)
  \/ HandleException(1)
  \/ Propagate(1)

Spec == Init /\ [][Next]_vars

\* worker threads calling the shared TokenManager concurrently
NextTM ==
  \E t \in Threads :
    \/ CallGetToken(t)
    \/ CallIncrement(t)
    \/ GtEnter(t)
    \/ FetchPost(t)
    \/ GtExit(t)
    \/ IncRead(t)
    \/ IncWrite(t)

SpecTM == Init /\ [][NextTM]_vars

\* one worker running get_all_pages against any server content
InitPages ==
  /\ InitClient
  /\ InitGap
  /\ InitExt
  /\ pages \in [1..NPages -> Bundles]

NextPages ==
  \/ CallGetAllPages(1)
  \/ GapFirst(1)
  \/ GapLoop(1)

SpecPages == InitPages /\ [][NextPages]_vars

\* the same, with the worker's thread always scheduled again
SpecPagesLive == SpecPages /\ WF_vars(NextPages)

\* one run of coordination_notes_csv.main against any stored CSV
InitSync ==
  /\ InitClient
  /\ InitGap
  /\ InitServer
  /\ \E rf \in SyncFiles : InitNotes(rf)
  /\ InitPipe
  /\ InitAux

NextSync ==
  \/ CallMain
  \/ GetLastFetchDate
  \/ CaptureNow
  \/ BeginWindow
  \/ FetchPage
  \/ AdvanceWindow
  \/ CheckNew
  \/ DownloadExisting
  \/ UploadMerged
  \/ Tick

SpecSync == InitSync /\ [][NextSync]_vars

\* the resume phase of main against any stored CSV
InitResume ==
  /\ InitClient
  /\ InitGap
  /\ InitServer
  /\ \E rf \in RemoteFiles : InitNotes(rf)
  /\ InitPipe
  /\ InitAux

NextResume ==
  \/ CallMain
  \/ GetLastFetchDate
  \/ CaptureNow
  \/ Tick

SpecResume == InitResume /\ [][NextResume]_vars

\* one run of the main of any of the five pipeline scripts
InitPipeline ==
  /\ InitClient
  /\ InitGap
  /\ InitServer
  /\ InitExt

NextPipeline ==
  \/ \E p \in Pipelines : StartPipeline(p)
  \/ CreateTracker
  \/ FetchInput
  \/ SubmitBatch
  \/ \E i \in 1..MaxItems : StartTask(i)
  \/ \E i \in 1..MaxItems : FinishTask(i)
  \/ CollectResult
  \/ ExitPool
  \/ Unwind
  \/ EndStage
  \/ Prepare
  \/ SaveLocal
  \/ Upload
  \/ FatalHandler

SpecPipeline == InitPipeline /\ [][NextPipeline]_vars

\* get_all_active_patients on any bundle the search returns
InitPatients ==
  /\ InitClient
  /\ InitGap
  /\ InitServer
  /\ InitNotes(NoFile)
  /\ InitPipe
  /\ InitO2
  /\ InitTrk
  /\ all_patients \in SeqsUpTo(PatientKinds, MaxPatients)
  /\ patients_with_birthdate = NoPatients

NextPatients == GetAllActivePatients

SpecPatients == InitPatients /\ [][NextPatients]_vars

\* _check_patient_o2_status on any MedicationRequests of the patient
InitO2Check ==
  /\ InitClient
  /\ InitGap
  /\ InitServer
  /\ InitNotes(NoFile)
  /\ InitPipe
  /\ InitPat
  /\ InitTrk
  /\ med_requests \in SeqsUpTo(MedKinds, MaxMeds)
  /\ o2 = NoO2

NextO2Check == CheckO2

SpecO2Check == InitO2Check /\ [][NextO2Check]_vars

\* the threads of two processes with their trackers, the clock and the
\* poller that reads the files
NextTracker ==
  \/ \E n \in ProcessNames : Construct(n)
  \/ \E n \in ProcessNames : \E k \in 1..MaxTotal : SetTotal(n, k)
  \/ \E n \in ProcessNames : \E k \in 0..MaxProcessed : Update(n, k)
  \/ \E n \in ProcessNames : Increment(n)
  \/ \E n \in ProcessNames : Complete(n)
  \/ \E n \in ProcessNames : SetError(n)
  \/ \E n \in ProcessNames : CloseFile(n)
  \/ \E n \in ProcessNames : OpenCurrent(n)
  \/ \E n \in ProcessNames : CloseCurrent(n)
  \/ TickWall
  \/ GetCurrentProgress

SpecTracker == Init /\ [][NextTracker]_vars

\* ------------------------------------------------------------------ claims

\* C1: token rotation.  Starting from a cached token with request_count = 0,
\* none of the first TOKEN_ROTATION_COUNT clean calls (one GET, answered 200
\* with a body) fetches a token, and the call after exactly
\* TOKEN_ROTATION_COUNT of them runs exactly one token fetch before its GET.
C1_TokenRotation ==
  /\ cleanSince <= TOKEN_ROTATION_COUNT
  /\ \A t \in Threads :
       (hist[t].cleanAtCall >= 0 /\ pc[t] \in {"get", "inc_read", "inc_write"}
          /\ hist[t].gets <= 1)
         => hist[t].fetches = (IF hist[t].cleanAtCall = TOKEN_ROTATION_COUNT THEN 1 ELSE 0)

C1_Witness ==
  /\ pc[1] = "get"
  /\ hist[1].gets = 0
  /\ hist[1].cleanAtCall = TOKEN_ROTATION_COUNT
  /\ hist[1].fetches = 1

\* C4: one make_request call issues at most MAX_RETRIES + 1 GETs.
C4_BoundedGets == \A t \in Threads : hist[t].gets <= MAX_RETRIES + 1

C6_OneIncrementPerCall ==
  \A t \in Threads :
    pc[t] = "idle" =>
      /\ result[t] = "body" => hist[t].incs = 1
      /\ result[t] \in {"raised", "None"} => hist[t].incs = 0

\* C7: a 414 response ends the call at once: None is returned, nothing is
\* raised, no GET, forced refresh or increment follows it, and the step that
\* receives it leaves the TokenManager alone.
C7_Sentinel414 ==
  /\ [](\A t \in Threads :
          hist[t].lastOut = "r414"
            => /\ pc[t] = "idle"
               /\ result[t] = "None"
               /\ stk[t] = <<>>
               /\ exc[t] = "none"
               /\ ~hist[t].forced)
  /\ [][\A t \in Threads :
          (pc[t] = "get" /\ hist'[t].lastOut = "r414")
            => /\ request_count' = request_count
               /\ current_token' = current_token
               /\ hist'[t].incs = hist[t].incs]_vars

C7_Witness ==
  /\ hist[1].lastOut = "r414"
  /\ hist[1].gets >= 2
  /\ result[1] = "None"

\* C8: once the attempt with retry_count = MAX_RETRIES has failed, the call
\* ends by raising, never with a body or None.
C8_ExhaustedRaises ==
  \A t \in Threads :
    (pc[t] = "idle" /\ hist[t].exhausted) => result[t] = "raised"

\* C9: _fetch_new_token makes at most MAX_RETRIES POSTs, sleeps 2^attempt
\* between consecutive attempts, returns the token of the first successful
\* attempt, and raises the last error after MAX_RETRIES failed attempts.
C9_FetchNewToken ==
  \A t \in Threads :
    (pc[t] = "fetch_post" \/ (pc[t] = "gt_exit" /\ gt[t].posts >= 1)) =>
      /\ gt[t].posts <= MAX_RETRIES
      /\ \A i \in 1..Len(gt[t].naps) : gt[t].naps[i] = Pow2(i - 1)
      /\ pc[t] = "fetch_post" => Len(gt[t].naps) = gt[t].posts
      /\ (pc[t] = "gt_exit" /\ exc[t] = "none") =>
            /\ gt[t].posts >= 1
            /\ Len(gt[t].naps) = gt[t].posts - 1
            /\ gt[t].ret \in Tokens
            /\ current_token = gt[t].ret
      /\ (pc[t] = "gt_exit" /\ exc[t] # "none") =>
            /\ gt[t].posts = MAX_RETRIES
            /\ Len(gt[t].naps) = MAX_RETRIES - 1
            /\ exc[t] = gt[t].lastErr

C9_Witness ==
  /\ pc[1] = "gt_exit"
  /\ exc[1] = "HTTPError"
  /\ gt[1].posts = MAX_RETRIES
  /\ gt[1].naps = <<1, 2>>

\* C2: get_token fetches a token exactly when no token is cached, or
\* force_refresh is set, or request_count >= TOKEN_ROTATION_COUNT; a
\* successful refresh leaves request_count = 0; otherwise the cached token is
\* returned and token and counter are as they were when the call began.
C2_GetToken ==
  \A t \in Threads :
    pc[t] = "gt_exit" =>
      /\ gt[t].posts >= 1 <=>
            (gtForce[t] \/ gt[t].entryTok = NoToken
               \/ gt[t].entryCnt >= TOKEN_ROTATION_COUNT)
      /\ (gt[t].posts >= 1 /\ exc[t] = "none") =>
            /\ request_count = 0
            /\ current_token = gt[t].ret
      /\ gt[t].posts = 0 =>
            /\ exc[t] = "none"
            /\ gt[t].ret = gt[t].entryTok
            /\ current_token = gt[t].entryTok
            /\ request_count = gt[t].entryCnt

C2_Witness ==
  /\ pc[1] = "gt_exit"
  /\ gt[1].posts = 0
  /\ gt[1].entryCnt = TOKEN_ROTATION_COUNT - 1
  /\ pc[2] = "inc_read"

\* the critical sections of get_token and increment_request_count
InCS(t) == pc[t] \in {"fetch_post", "gt_exit", "inc_write"}

\* C3: the critical sections exclude each other, no increment is lost
\* (request_count is the number of increments since the last refresh), at
\* most one token fetch is in progress, and a lazy refresh starts only after
\* TOKEN_ROTATION_COUNT increments since the previous refresh, so two threads
\* that ask for a token at the threshold cause one refresh.
C3_ThreadSafe ==
  /\ \A t \in Threads : InCS(t) => lock = t
  /\ \A t1, t2 \in Threads : (InCS(t1) /\ InCS(t2)) => t1 = t2
  /\ lock = 0 => request_count = incSince
  /\ Cardinality({t \in Threads : pc[t] = "fetch_post"}) <= 1
  /\ \A t \in Threads :
       (pc[t] = "fetch_post" /\ ~gtForce[t] /\ gt[t].entryTok # NoToken)
         => incSince >= TOKEN_ROTATION_COUNT

C3_Witness ==
  /\ pc[1] = "fetch_post"
  /\ ~gtForce[1]
  /\ gt[1].entryTok # NoToken
  /\ pc[2] = "gt_enter"
  /\ ~gtForce[2]
  /\ request_count >= TOKEN_ROTATION_COUNT

\* the pages a walk along the next links from page i visits; -1 marks a
\* walk that is still going after fuel pages (the links form a cycle)
RECURSIVE Walk(_, _)
Walk(i, fuel) ==
  IF i = 0 THEN <<>>
  ELSE IF fuel = 0 THEN <<-1>>
  ELSE <<i>> \o Walk(pages[i].next, fuel - 1)

RECURSIVE ConcatResources(_)
ConcatResources(w) ==
  IF w = <<>> THEN <<>> ELSE ResourcesOf(w[1], 1) \o ConcatResources(SubSeq(w, 2, Len(w)))

\* the bundles reachable from the first page form a finite sequence
FiniteChain == \A k \in 1..Len(Walk(1, NPages)) : Walk(1, NPages)[k] # -1

\* C10: over a finite chain of bundles get_all_pages returns the
\* concatenation of the resources of every page in page order and stops at
\* the bundle without a next link.
C10_AllPages ==
  \A t \in Threads :
    (pc[t] = "idle" /\ result[t] = "returned" /\ FiniteChain) =>
      /\ all_resources[t] = ConcatResources(Walk(1, NPages))
      /\ NextLink(bundle[t]) = 0

\* the rows stored in the remote CSV
StoredRows == IF remote.exists THEN remote.rows ELSE <<>>

\* the seconds named by the stored rows whose Api_Run_Date is an ISO date
ValidRunDates ==
  {StoredRows[i].Api_Run_Date.t :
     i \in {j \in 1..Len(StoredRows) : StoredRows[j].Api_Run_Date.k = "Z"}}

SetMax(S) == CHOOSE m \in S : \A x \in S : x <= m

\* C11: resume cursor.  get_last_fetch_date returns T - 30 minutes, formatted
\* %Y-%m-%dT%H:%M:%SZ, where T is the largest valid Api_Run_Date of the
\* downloaded rows (rows without a date or with an unparseable one are
\* ignored), and the wall clock - 60 days when there is no valid date: an
\* empty or missing file, or a failed download.
C11_ResumeCursor ==
  [][npc = "resume" /\ npc' = "capture" =>
       current_date' =
         IF dl'[Len(dl')].out = "ok" /\ ValidRunDates # {}
         THEN ZStr(SetMax(ValidRunDates) - Minutes(SYNC_BUFFER_MINUTES))
         ELSE ZStr(clock - Days(DEFAULT_LOOKBACK_DAYS))]_vars

\* the file holds an unparseable date and two valid ones, the later one first,
\* and the cursor is 30 minutes before the later one
C11_Witness ==
  /\ npc = "capture"
  /\ dl[1].out = "ok"
  /\ Len(StoredRows) = 3
  /\ StoredRows[1].Api_Run_Date = ZStr(Clock0 - Minutes(45))
  /\ StoredRows[2].Api_Run_Date = BadStr
  /\ StoredRows[3].Api_Run_Date = ZStr(Clock0 - Minutes(90))
  /\ current_date = ZStr(Clock0 - Minutes(75))

\* the resource dates of the running window that are dates at all
Dated == {d \in batchDates : d.k # "empty"}

\* the greatest string of a set of date strings
StrMaxOf(S) == CHOOSE m \in S : \A x \in S : StrGE(m, x)

\* C12 as stated: after every non-empty batch the cursor is the maximum
\* resource date seen in the batch plus one second, and it is strictly
\* greater than the cursor before.
C12_CursorIsMaxPlusOne ==
  [][npc = "advance" /\ batch_notes # <<>> =>
       /\ Dated # {} =>
            \E m \in Dated :
              /\ \A x \in Dated : x.t <= m.t
              /\ current_date'.k \in {"Z", "off"}
              /\ current_date'.z = 0
              /\ current_date'.t = m.t + 1
       /\ StrGT(current_date', current_date)]_vars

\* C12, amended: after every non-empty batch the cursor is strictly greater,
\* as a string, than before.  With L the greatest string among the previous
\* cursor and the resource dates of the batch, the cursor is L plus one second
\* in the format %Y-%m-%dT%H:%M:%SZ when L parses, and L with the character
\* "0" appended when it does not.
C12_CursorAdvance ==
  [][npc = "advance" /\ batch_notes # <<>> =>
       LET L == StrMaxOf({current_date} \cup Dated)
       IN /\ current_date' = IF L.k = "Z" THEN ZStr(L.t + 1)
                             ELSE OffStr(L.t, L.z + 1)
          /\ StrGT(current_date', current_date)]_vars

\* the second window query is about to be sent after the first window ended
\* with a date that does not parse
C12_Witness ==
  /\ npc = "window"
  /\ queries = 1
  /\ coordination_notes # <<>>
  /\ current_date = OffStr(Clock0, 1)

\* C13: the window loop stops at the first iteration whose batch has no notes
\* or whose advanced cursor is >= 'now', and not before; 'now' is taken once
\* and never again; no window query follows the stop.
C13_LoopStop ==
  /\ [][npc = "advance" =>
          /\ npc' = "check" <=> (batch_notes = <<>> \/ StrGE(current_date', now))
          /\ npc' # "check" => npc' = "window"]_vars
  /\ [][npc \notin {"idle", "resume", "capture"} => UNCHANGED now]_vars
  /\ [][(npc \in {"check", "merge", "upload", "done"}) => UNCHANGED queries]_vars

\* the loop stopped after one window because the cursor reached 'now', while
\* the wall clock had moved on
C13_Witness ==
  /\ npc = "check"
  /\ queries = 1
  /\ coordination_notes # <<>>
  /\ StrGE(current_date, now)
  /\ ~StrGE(current_date, ZStr(clock))

\* C14: whenever the run uploads, the uploaded snapshot is the rows stored
\* before the run followed by every new note of the run, so no stored row is
\* lost.
C14_LosslessRewrite ==
  uploaded =>
    /\ remote.exists
    /\ remote.rows =
         CsvWrite((IF remote0.exists THEN remote0.rows ELSE <<>>)
                  \o coordination_notes)

\* C15 as stated: the run downloads the notes CSV once, in the resume phase.
C15_SingleDownload ==
  /\ Len(dl) <= 1
  /\ \A i \in 1..Len(dl) : dl[i].phase = "resume"

\* C15, amended: the run downloads the notes CSV once in the resume phase and,
\* when it collected new notes, a second time in the merge phase before the
\* upload; the uploaded snapshot is the rows of that second download followed
\* by the new notes.  A run without new notes downloads once.
C15_TwoDownloads ==
  /\ npc \in {"capture", "window", "page", "advance", "check", "merge"} =>
       Len(dl) = 1 /\ dl[1].phase = "resume"
  /\ npc = "upload" => Len(dl) = 2 /\ dl[2].phase = "merge"
  /\ npc = "done" =>
       Len(dl) = IF coordination_notes = <<>> THEN 1 ELSE 2
  /\ uploaded =>
       remote.rows =
         CsvWrite((IF dl[2].out = "ok" /\ remote0.exists
                   THEN remote0.rows ELSE <<>>) \o coordination_notes)

\* the run uploaded stored rows it downloaded in the merge phase
C15_Witness ==
  /\ uploaded
  /\ Len(dl) = 2
  /\ existing_notes # <<>>

\* C16: when a page request failed after its retries, main returns False and
\* uploads nothing.
C16_PageFailureFatal ==
  pageFailed /\ npc = "done" => nret = "False" /\ ~uploaded

\* C17: per-item failure isolation.  In every fan-out stage of every
\* pipeline, a task that raised is dropped alone: no sibling task is
\* cancelled, and the task's exception never reaches main's outer handler.
C17_ItemFailureIsolated ==
  /\ cause # "task"
  /\ mpc # "unwind"
  /\ \A i \in 1..MaxItems : task[i] # "cancelled"

\* the stages that open a fresh pool for every batch of IDs
BarrierStages == {"patient processing", "location lookup", "O2 check"}

\* a pool worker has taken the task
Started(s) == s \in {"running", "done", "empty", "raised"}

RECURSIVE Flatten(_)
Flatten(ss) == IF ss = <<>> THEN <<>> ELSE Head(ss) \o Flatten(Tail(ss))

\* C18: synchronous barrier between batches.  In get_patient_locations_batch,
\* get_patient_o2_status_batch and process_patients_batch, a task of a later
\* batch has started only if every task of every earlier batch has finished
\* (returned or raised); the batches, one after the other, are the input IDs
\* in their order, every ID in exactly one batch, and no batch is empty or
\* longer than the configured batch size.
C18_BatchBarrier ==
  (mpc \in {"submit", "collect", "unwind"} /\ CurStage \in BarrierStages) =>
    /\ \A k1 \in 1..Len(CurBatches) : \A k2 \in 1..Len(CurBatches) :
         k1 < k2 =>
           \A i \in SeqRange(CurBatches[k1]) : \A j \in SeqRange(CurBatches[k2]) :
             Started(task[j]) => Finished(task[i])
    /\ Flatten(CurBatches) = Ids(nitems)
    /\ \A k \in 1..Len(CurBatches) :
         /\ Len(CurBatches[k]) >= 1
         /\ Len(CurBatches[k]) <= BatchSizeOf(CurStage, nitems)

\* a task of the second batch runs after the first batch ended with one task
\* returned and one raised, and the input does not fill the last batch
C18_Witness ==
  /\ pl = "patients"
  /\ mpc = "collect"
  /\ nitems = 3
  /\ batch = 2
  /\ task[1] = "raised"
  /\ task[2] = "done"
  /\ task[3] = "running"

C20_FatalMarksError ==
  (mpc = "done" /\ cause \notin {"none", "makedirs"}) =>
    /\ tstatus = "error"
    /\ terror = cause
    /\ mret = "False"

\* alert_media ran into its NameError and returned
C20_Witness ==
  /\ pl = "alert_media"
  /\ mpc = "done"
  /\ cause = "NameError"
  /\ tstatus = "error"
  /\ terror = "NameError"
  /\ mret = "False"

\* C24: get_all_pages gives up on a page whose request came back as the 414
\* sentinel (None): the call does not raise, it returns the resources of the
\* pages fetched before.
C24_SentinelGivesUp ==
  \A t \in Threads : result[t] # "TypeError"

\* the pages get_all_pages requests when every request returns its bundle:
\* it follows the next links from page i and stops behind a followed page
\* without entries; -1 marks a traversal still going after fuel pages
RECURSIVE Visit(_, _, _)
Visit(i, first, fuel) ==
  IF i = 0 THEN <<>>
  ELSE IF fuel = 0 THEN <<-1>>
  ELSE IF ~first /\ ~HasEntries(i) THEN <<i>>
  ELSE <<i>> \o Visit(pages[i].next, FALSE, fuel - 1)

Visited == Visit(1, TRUE, NPages)

\* the traversal ends: it does not run into a cycle of pages with entries
TerminatingChain == \A k \in 1..Len(Visited) : Visited[k] # -1

\* the request of this step did not raise
TookBody(t) == reqs'[t] = reqs[t] + 1 /\ result'[t] \notin {"raised", "TypeError"}

Remaining(c) == IF StrGE(c, now) THEN 0 ELSE now.t - c.t + 1

\* C26: the windowed fetch loop terminates after finitely many windows for
\* every sequence of server responses: every iteration that goes on to
\* another window has moved the cursor closer to 'now'.
C26_WindowsTerminate ==
  [][(npc = "advance" /\ npc' = "window") =>
       Remaining(current_date') < Remaining(current_date)]_vars

\* C27: one window query of fetch_notes_by_date_range requests at most
\* MAX_PAGES_PER_REQUEST pages; the search parameters go with the first
\* page only, later pages are the next link without parameters; it stops at
\* the first page without next link, at the page cap, or at the first page
\* whose fetch fails, and what it returns is the notes gathered so far and
\* the greatest date seen, never below the start cursor.
C27_WindowQuery ==
  /\ [](npc = "page" => page_number <= MAX_PAGES_PER_REQUEST)
  /\ [](npc \in {"page", "advance"} =>
          /\ page_number <= MAX_PAGES_PER_REQUEST + 1
          /\ last_req.params = "search" =>
                last_req.url = "DocumentReference" /\ page_number <= 2
          /\ page_number > 2 => last_req = [url |-> "next", params |-> "none"])
  /\ [][npc = "page" =>
          /\ last_req'.params = IF page_number = 1 THEN "search" ELSE "none"
          /\ last_req'.url = IF page_number = 1 THEN "DocumentReference" ELSE "next"
          /\ page_number' \in {page_number, page_number + 1}
          /\ (npc' = "page" /\ page_number' = page_number) =>
                fp_attempt' = fp_attempt + 1 /\ UNCHANGED <<batch_notes, batch_latest_date>>
          /\ npc' = "advance" =>
                \/ page_number' = page_number
                \/ page_number' = MAX_PAGES_PER_REQUEST + 1
          /\ (pageFailed' /\ ~pageFailed) =>
                /\ npc' = "advance"
                /\ UNCHANGED <<batch_notes, batch_latest_date, page_number>>]_vars
  /\ [](npc = "advance" =>
          /\ batch_latest_date = StrMaxOf({current_date} \cup Dated)
          /\ StrGE(batch_latest_date, current_date))

\* the window ran into the page cap with a next link still open
C27_Witness ==
  /\ npc = "advance"
  /\ page_number = MAX_PAGES_PER_REQUEST + 1
  /\ Len(batch_notes) = MAX_PAGES_PER_REQUEST * MaxEntries
  /\ last_req = [url |-> "next", params |-> "none"]
  /\ StrGT(batch_latest_date, current_date)

\* the get_token call of t has failed: _fetch_new_token raised
RefreshFailed(t) == pc[t] = "gt_exit" /\ exc[t] # "none"

\* C28: a token refresh that fails has used all MAX_RETRIES attempts and
\* leaves the TokenManager as it was: current_token and request_count have
\* the values they had when get_token was entered, and leaving get_token
\* releases the lock and changes neither, so that a later get_token call
\* can take the lock.
C28_FailedRefreshKeepsState ==
  /\ [](\A t \in Threads :
          RefreshFailed(t) =>
            /\ lock = t
            /\ gt[t].posts = MAX_RETRIES
            /\ current_token = gt[t].entryTok
            /\ request_count = gt[t].entryCnt)
  /\ [][\A t \in Threads :
          (RefreshFailed(t) /\ pc'[t] # pc[t]) =>
            /\ lock' = 0
            /\ current_token' = gt[t].entryTok
            /\ request_count' = gt[t].entryCnt
            /\ result'[t] = "raised"]_vars

\* after the failed refresh of thread 1, with a token cached and the counter
\* at the threshold, thread 2 has taken the lock and refreshes again
C28_Witness ==
  /\ result[1] = "raised"
  /\ pc[1] = "idle"
  /\ pc[2] = "fetch_post"
  /\ lock = 2
  /\ current_token # NoToken
  /\ request_count >= TOKEN_ROTATION_COUNT

\* C29: pipeline outcome consistency.  When main has returned, the tracker
\* it created is 'completed' if main returned True and 'error' if main
\* returned False: it is never left 'running' and never 'error' beside True.
C29_OutcomeConsistent ==
  (mpc = "done" /\ tstatus # "none") =>
    /\ tstatus \in {"completed", "error"}
    /\ mret = "True" <=> tstatus = "completed"
    /\ mret = "False" <=> tstatus = "error"

\* the checks of the first request of the list that satisfies any check
FirstMatching(rs) ==
  rs[CHOOSE i \in 1..Len(rs) : rs[i] # {} /\ \A j \in 1..(i - 1) : rs[j] = {}]

\* C21: O2 match priority.  Once _check_patient_o2_status has returned for a
\* patient whose MedicationRequest list holds a request that satisfies a check,
\* the result is (True, reason) with the reason of the first check, in the
\* order known ID, name, coding, dosage, category, note, that the first such
\* request satisfies; a request with a known ID is reported as
\* "Matched known ID".
C21_O2MatchPriority ==
  (o2.called /\ \E i \in 1..Len(med_requests) : med_requests[i] # {}) =>
    /\ o2.has
    /\ o2.reason = FirstCheck(FirstMatching(med_requests))
    /\ "known ID" \in FirstMatching(med_requests) => o2.reason = "known ID"

IsActiveWithBirthdate(p) == p.active /\ p.birthDate \notin {"absent", ""}

\* C22: patient retention filter.  Once get_all_active_patients has returned,
\* what it retained is exactly the resources of the bundle that are active and
\* have a non-empty birthDate, in the bundle's order; a bundle of one active
\* patient with birthdate, one active patient without and one inactive patient
\* yields exactly one retained resource.
C22_RetentionFilter ==
  patients_with_birthdate.called =>
    /\ patients_with_birthdate.value = SelectSeq(all_patients, IsActiveWithBirthdate)
    /\ (/\ Len(all_patients) = 3
        /\ all_patients[1] = [active |-> TRUE, birthDate |-> "1950-01-01"]
        /\ all_patients[2].active /\ ~HasBirthdate(all_patients[2])
        /\ ~all_patients[3].active)
         => Len(patients_with_birthdate.value) = 1

\* C23: progress record persistence and staleness.  When a tracker operation
\* (construction, update, increment, complete, set_error) of a process
\* returns, that process's file holds the tracker's in-memory state and
\* current.json names the process with updated_at equal to the present time;
\* a get_current_progress call returns None when current.json is missing or
\* its updated_at is more than 300 seconds old, and the content of the file
\* of the process current.json names otherwise.
C23_PersistenceAndStaleness ==
  /\ [][\A n \in ProcessNames :
          CloseCurrent(n) =>
            /\ pfile'[FileName(n)].json
            /\ pfile'[FileName(n)].process_name = n
            /\ pfile'[FileName(n)].total_items = tracker'[n].total_items
            /\ pfile'[FileName(n)].processed_items = tracker'[n].processed_items
            /\ pfile'[FileName(n)].status = tracker'[n].status
            /\ pfile'[FileName(n)].end_time = tracker'[n].end_time
            /\ pfile'[FileName(n)].error = tracker'[n].error
            /\ current'.json
            /\ current'.current_process = n
            /\ current'.updated_at = wall']_vars
  /\ [](got.called =>
          IF ~current.exists \/ (current.json /\ wall - current.updated_at > 300)
          THEN ~got.value.exists
          ELSE /\ got.value.exists
               /\ got.value.process_name = current.current_process
               /\ got.value = pfile[FileName(current.current_process)])

\* C30: ProgressTracker invariants.  Over any sequence of calls the status of
\* a tracker is running, completed or error; its end_time is set exactly when
\* the status is not running; update and increment leave the status as it
\* was; and the percentage in the process file is an integer between 0 and
\* 100, and 0 when total_items is 0.
C30_TrackerInvariants ==
  /\ [](\A n \in ProcessNames :
          /\ tracker[n].made =>
               /\ tracker[n].status \in {"running", "completed", "error"}
               /\ (tracker[n].end_time # NoTime) <=> (tracker[n].status # "running")
          /\ pfile[FileName(n)].json =>
               /\ pfile[FileName(n)].percentage \in 0..100
               /\ pfile[FileName(n)].total_items = 0 => pfile[FileName(n)].percentage = 0)
  /\ [][\A n \in ProcessNames :
          ((\E k \in 0..MaxProcessed : Update(n, k)) \/ Increment(n)) =>
            tracker'[n].status = tracker[n].status]_vars

====
